---- MODULE Spec2Model ----
(***************************************************************************)
(* A model of the Path update pipeline of the scenegraph library:          *)
(* Path (src/unnamed/part_001), Rectangle (src/src/main.ts), and the       *)
(* numeric helpers of src/src/lib/utils/math.ts.                           *)
(*                                                                         *)
(* Numbers.  The program computes in float64.  The model computes in exact *)
(* rationals <<n, d>> (d > 0, lowest terms; d = 0 is NaN); vertex          *)
(* coordinates are                                                         *)
(* integers drawn from sets whose pairwise distances are integers, so that *)
(* segment lengths are exact.                                              *)
(*                                                                         *)
(* Indices.  Sequences are 1-based here and 0-based in the program; every  *)
(* operator below takes and returns the program's 0-based indices and      *)
(* reads a sequence through At.                                            *)
(*                                                                         *)
(* Scope.  Paths with curved = false and anchors whose control handles are *)
(* zero (straight segments); the curve fitting of plot() for curved paths  *)
(* is not modelled.                                                        *)
(***************************************************************************)
EXTENDS Integers, Sequences, FiniteSets, TLC

VARIABLES
    anchor,   \* the Anchor objects: [Anchors -> fields and number of live change$ subscriptions of the shape]
    path,     \* the fields of the Path (and of the Rectangle, when it is one)
    lastOp,   \* the operation that produced the current state
    threw,    \* TRUE when that operation ended by throwing (its partial effects are in the state)
    uanchor,  \* two Anchor objects of utils/math.ts, their Vectors, and the last call made on them
    out,      \* the last call of getPointAt by the caller: its t, its output anchor, what it returned
    rect,     \* what the last call of getBoundingClientRect returned
    fitter,   \* the Fitter of lib/two.ts: its target, its subscription, every subscription it obtained
    calc,     \* the last call of a function of utils/math.ts: its name, its arguments, what it returned
    two,      \* the Two of lib/two.ts that owns the Fitter: its subscription to the view, its size, its frame counter
    gradient  \* a Gradient: its stops, the listeners on their collection, its subscriptions to the stops, _flagStops

vars == <<anchor, path, lastOp, threw, uanchor, out, rect, fitter, calc, two, gradient>>

----------------------------------------------------------------------------
(* Bounds of the model *)

\* beginning and ending take the values 0/TDen .. TDen/TDen
TDen == 2
\* under SetBeginningFine and SetEndingFine each step of 1/TDen is divided
\* into Fine steps
Fine == 2
\* Two.update is followed up to this number of frames
MaxFrames == 3
\* the resize subscriptions a Fitter creates are followed up to this number
MaxResizeSubs == 4
\* mod is called with v in -MaxModArg .. MaxModArg and l in 1 .. MaxModulus
MaxModArg == 12
MaxModulus == 5
\* getPoT is called with the values 1 .. MaxPoTArg and with the values next to
\* every entry of its table
MaxPoTArg == 40
\* the version counter of the render buffer is followed up to this value
MaxVersion == 2
\* live change$ subscriptions followed per anchor
MaxSubs == 2

\* Collections that subdivide creates for one Path
MaxSubdivisions == 2

\* a Rectangle is constructed with 4 corner anchors; it appends one more when open
RectCorners == 4

Anchors == 1 .. (RectCorners + 1)
\* the Anchor objects a plain Path draws its vertices from
PathAnchors == {1, 2, 3}

----------------------------------------------------------------------------
(* Exact rational arithmetic standing for float64 *)

Abs(n) == IF n < 0 THEN -n ELSE n

RECURSIVE GCD(_, _)
GCD(a, b) == IF b = 0 THEN a ELSE GCD(b, a % b)

\* NaN is the pair with denominator 0; every operation on it yields it, and
\* every comparison with it is false
NaN == <<0, 0>>
\* `undefined`, which arithmetic turns into NaN
Undefined == <<1, 0>>

Norm(n, d) ==
    IF d = 0 THEN NaN
    ELSE LET g == GCD(Abs(n), Abs(d))
             s == IF d < 0 THEN -1 ELSE 1
         IN  <<(s * n) \div g, (s * d) \div g>>

R(n) == <<n, 1>>
RAdd(a, b) == Norm(a[1] * b[2] + b[1] * a[2], a[2] * b[2])
RSub(a, b) == Norm(a[1] * b[2] - b[1] * a[2], a[2] * b[2])
RMul(a, b) == Norm(a[1] * b[1], a[2] * b[2])
RDiv(a, b) == Norm(a[1] * b[2], a[2] * b[1])
RLeq(a, b) == a[2] # 0 /\ b[2] # 0 /\ a[1] * b[2] <= b[1] * a[2]
RLt(a, b) == a[2] # 0 /\ b[2] # 0 /\ a[1] * b[2] < b[1] * a[2]
RMin(a, b) == IF RLeq(a, b) THEN a ELSE b
RMax(a, b) == IF RLeq(a, b) THEN b ELSE a
\* Math.floor, Math.ceil
Floor(a) == a[1] \div a[2]
Ceil(a) == -((-a[1]) \div a[2])

RECURSIVE ISqrtFrom(_, _)
ISqrtFrom(n, k) == IF (k + 1) * (k + 1) > n THEN k ELSE ISqrtFrom(n, k + 1)
\* Math.sqrt on the squares the model's coordinates produce
ISqrt(n) == ISqrtFrom(n, 0)

\* the program's 0-based read of an array
At(s, i) == s[i + 1]
Last(s) == s[Len(s)]
Range(s) == {s[k] : k \in 1 .. Len(s)}

RECURSIVE SumSeq(_)
SumSeq(s) == IF s = <<>> THEN 0 ELSE s[1] + SumSeq(Tail(s))

----------------------------------------------------------------------------
(* utils/math.ts *)

\* lerp(a, b, t) = t * (b - a) + a
lerp(a, b, t) == RAdd(RMul(t, RSub(b, a)), a)

----------------------------------------------------------------------------
(* Values *)

Commands == {"M", "L"}

\* Flag: the dirty bits of a Path, and Width and Height of a Rectangle
PathFlags == {"Cap", "Clip", "Fill", "Join", "Length", "Linewidth", "Mask",
              "Miter", "Stroke", "VectorEffect", "Vertices"}
RectFlags == {"Width", "Height"}
Flags == PathFlags \cup RectFlags

\* coordinates a caller moves an anchor to; all pairwise distances are integers
Pts == {<<0, 0>>, <<3, 0>>, <<3, 4>>}
\* where the anchors of a plain Path are constructed
InitPt(a) == IF a = 1 THEN <<0, 0>> ELSE IF a = 2 THEN <<3, 0>> ELSE <<3, 4>>

\* widths and heights of a Rectangle (even, so that the half extents are integers)
Sizes == {6, 8}
RectOrigins == {<<0, 0>>, <<1, 0>>}

Zero2 == <<R(0), R(0)>>

\* new Anchor(G20.vector(x, y), ..., command): handles zero, relative, nobody subscribed
NewAnchor(x, y, command) ==
    [x |-> x, y |-> y, left |-> Zero2, right |-> Zero2, relative |-> TRUE,
     command |-> command, subs |-> 0]

\* an anchor of the private working storage #anchors: new Anchor(G20.vector(0, 0))
NewWorkAnchor ==
    [x |-> R(0), y |-> R(0), left |-> Zero2, right |-> Zero2, relative |-> TRUE,
     command |-> "M", t |-> Undefined]

\* the anchor a caller hands to getPointAt: new Anchor(G20.vector(1, 1))
OutAnchor ==
    [x |-> R(1), y |-> R(1), left |-> Zero2, right |-> Zero2, relative |-> TRUE,
     command |-> "M", t |-> Undefined]

\* no bounding rect was asked for yet
NoRect == [width |-> R(0), height |-> R(0), sides |-> <<>>]

\* the program state the operations below transform
World == [a |-> anchor, p |-> path, threw |-> FALSE]

----------------------------------------------------------------------------
(* Anchor: change notification *)

\* the callback the Path subscribes to anchor.change$ (vertices setter)
anchor_change_callback(w) == [w EXCEPT !.p.flags["Vertices"] = TRUE]

\* anchor.change$ emits: every live subscription of the shape runs its callback
anchor_change(w, a) == IF w.a[a].subs > 0 THEN anchor_change_callback(w) ELSE w

\* anchor.origin.set(x, y): a change is emitted when the value changes
anchor_set_origin(w, a, x, y) ==
    IF w.a[a].x = x /\ w.a[a].y = y
    THEN w
    ELSE anchor_change([w EXCEPT !.a[a].x = x, !.a[a].y = y], a)

\* anchor.command = c: no-op on an equal value, else a change is emitted
anchor_set_command(w, a, c) ==
    IF w.a[a].command = c
    THEN w
    ELSE anchor_change([w EXCEPT !.a[a].command = c], a)

----------------------------------------------------------------------------
(* Path: the vertices property and its subscriptions *)

\* anchor.change$.subscribe(...) followed by #anchor_change_map.set(anchor, subscription)
subscribe_anchor(w, a) ==
    [w EXCEPT !.a[a].subs = @ + 1, !.p.map = @ \cup {a}]

RECURSIVE subscribe_each(_, _)
subscribe_each(w, s) ==
    IF s = <<>> THEN w ELSE subscribe_each(subscribe_anchor(w, s[1]), Tail(s))

\* set vertices(vertices): the Collection -> Path listeners are replaced, the new
\* Collection is installed, and every anchor in it is subscribed to
set_vertices(w, s) ==
    subscribe_each([w EXCEPT !.p.vertices = s,
                             !.p.vertices_insert = TRUE,
                             !.p.vertices_remove = TRUE], s)

\* the insert$ handler installed by the vertices setter
RECURSIVE insert_each(_, _)
insert_each(w, s) ==
    IF s = <<>> THEN w ELSE insert_each(subscribe_anchor(w, Last(s)), SubSeq(s, 1, Len(s) - 1))

\* an insert$ handler that flags the Path and subscribes to nothing
vertices_insert_handler_flag_only(w, inserts) ==
    [w EXCEPT !.p.flags["Vertices"] = TRUE]

vertices_insert_handler(w, inserts) ==
    [insert_each(w, inserts) EXCEPT !.p.flags["Vertices"] = TRUE]

\* a remove$ handler that skips an anchor without an entry in the map
RECURSIVE remove_each_ignoring(_, _)
remove_each_ignoring(w, s) ==
    IF s = <<>> THEN w
    ELSE LET a == Last(s) IN
         IF a \notin w.p.map
         THEN remove_each_ignoring(w, SubSeq(s, 1, Len(s) - 1))
         ELSE remove_each_ignoring([w EXCEPT !.a[a].subs = @ - 1, !.p.map = @ \ {a}],
                                   SubSeq(s, 1, Len(s) - 1))

\* the remove$ handler installed by the vertices setter: an anchor without an
\* entry in the map makes subscription.dispose() throw a TypeError
RECURSIVE remove_each(_, _)
remove_each(w, s) ==
    IF s = <<>> \/ w.threw THEN w
    ELSE LET a == Last(s) IN
         IF a \notin w.p.map
         THEN [w EXCEPT !.threw = TRUE]
         ELSE remove_each([w EXCEPT !.a[a].subs = @ - 1, !.p.map = @ \ {a}],
                          SubSeq(s, 1, Len(s) - 1))

vertices_remove_handler(w, removes) ==
    LET w1 == remove_each(w, removes) IN
    IF w1.threw THEN w1 ELSE [w1 EXCEPT !.p.flags["Vertices"] = TRUE]

\* Collection.push(anchor): the item is appended and insert$ emits once
collection_push(w, a) ==
    LET w1 == [w EXCEPT !.p.vertices = Append(@, a)] IN
    IF w.p.vertices_insert THEN vertices_insert_handler(w1, <<a>>) ELSE w1

\* Collection.pop(): the last item is removed and remove$ emits once
collection_pop(w) ==
    LET a == Last(w.p.vertices)
        w1 == [w EXCEPT !.p.vertices = SubSeq(@, 1, Len(@) - 1)]
    IN  IF w.p.vertices_remove THEN vertices_remove_handler(w1, <<a>>) ELSE w1

----------------------------------------------------------------------------
(* Path: plot and the arc-length table *)

\* plot() with curved = false: Move for vertex 0, Line for every later vertex
RECURSIVE plot_from(_, _)
plot_from(w, i) ==
    IF i >= Len(w.p.vertices) THEN w
    ELSE plot_from(anchor_set_command(w, At(w.p.vertices, i), IF i = 0 THEN "M" ELSE "L"), i + 1)

\* a plot that gives every vertex the Line command
plot_all_lines(w) == [w EXCEPT !.a = [a \in DOMAIN w.a |-> [w.a[a] EXCEPT !.command = "L"]]]

plot(w) == plot_from(w, 0)

\* getCurveLength(a, b, limit) of a segment whose handles are zero: the distance
getCurveLength(w, a, b) ==
    ISqrt((w.a[a].x - w.a[b].x) * (w.a[a].x - w.a[b].x)
          + (w.a[a].y - w.a[b].y) * (w.a[a].y - w.a[b].y))

\* `closed` as #updateLength declares it
updateLength_closed == FALSE

\* the forEach of #updateLength, at index i: this.#lengths[i] = ... (the array
\* grows when i is its length, and keeps what lies beyond the vertices)
updateLength_store(lengths, i, v) ==
    IF i < Len(lengths) THEN [lengths EXCEPT ![i + 1] = v] ELSE Append(lengths, v)

\* an entry that measures every segment after the first vertex, whatever the command
updateLength_entry_measured(w, i) ==
    IF i <= 0 THEN 0 ELSE getCurveLength(w, At(w.p.vertices, i), At(w.p.vertices, i - 1))

updateLength_entry(w, i) ==
    LET a == At(w.p.vertices, i) IN
    IF (i <= 0 /\ ~updateLength_closed) \/ w.a[a].command = "M"
    THEN 0
    ELSE getCurveLength(w, a, At(w.p.vertices, i - 1))

\* the closing segment #updateLength adds after the last vertex when its `closed` holds
updateLength_closing(w, i) ==
    getCurveLength(w, At(w.p.vertices, i), At(w.p.vertices, (i + 1) % Len(w.p.vertices)))

RECURSIVE updateLength_from(_, _, _)
updateLength_from(w, i, sum) ==
    IF i >= Len(w.p.vertices)
    THEN [w EXCEPT !.p.length = sum, !.p.flags["Length"] = FALSE]
    ELSE LET a == At(w.p.vertices, i)
             v == updateLength_entry(w, i)
             moved == (i <= 0 /\ ~updateLength_closed) \/ w.a[a].command = "M"
             w1 == [w EXCEPT !.p.lengths = updateLength_store(@, i, v)]
         IN  IF ~moved /\ i >= Len(w.p.vertices) - 1 /\ updateLength_closed
             THEN LET c == updateLength_closing(w, i) IN
                  updateLength_from([w1 EXCEPT !.p.lengths = updateLength_store(@, i + 1, c)],
                                    i + 1, sum + v + c)
             ELSE updateLength_from(w1, i + 1, sum + v)

\* #updateLength(undefined, true): the silent form, without the leading update()
updateLength_silent(w) == updateLength_from(w, 0, 0)

----------------------------------------------------------------------------
(* utils/shape.ts and utils/curves.ts, as Path.update and getPointAt use them *)

\* the remainder operator of JavaScript on integers, l > 0: the sign of v
Rem(v, l) == IF v < 0 THEN -((-v) % l) ELSE v % l

\* a mod without the loop that lifts a negative v
mod_remainder(v, l) == Rem(v, l)

\* mod(v, l) of utils/math.ts, for l > 0
RECURSIVE mod(_, _)
mod(v, l) == IF v < 0 THEN mod(v + l, l) ELSE Rem(v, l)

\* const pots of utils/math.ts
pots == <<2, 4, 8, 16, 32, 64, 128, 256, 512, 1024, 2048, 4096>>

\* the while loop of getPoT from index i, and its return: pots[i], which is
\* undefined past the end of the table
RECURSIVE getPoT_from(_, _)
getPoT_from(value, i) ==
    IF i < Len(pots) /\ pots[i + 1] < value THEN getPoT_from(value, i + 1)
    ELSE IF i < Len(pots) THEN R(pots[i + 1])
    ELSE Undefined

\* getPoT(value) of utils/math.ts
getPoT(value) == getPoT_from(value, 0)

\* no function of utils/math.ts was called yet
NoCall == [fn |-> "none", args |-> <<>>, ret |-> Undefined]

\* the fraction e / (TDen * Fine) that beginning and ending hold
Frac(e) == Norm(e, TDen * Fine)

\* getIdByLength(path, target): the fractional vertex index at arc length target
RECURSIVE getIdByLength_from(_, _, _, _)
getIdByLength_from(p, target, i, sum) ==
    IF i >= Len(p.lengths) THEN R(-1)
    ELSE IF RLeq(target, R(sum + At(p.lengths, i)))
         THEN RAdd(R(IF i - 1 > 0 THEN i - 1 ELSE 0),
                   RDiv(RSub(target, R(sum)), R(At(p.lengths, i))))
         ELSE getIdByLength_from(p, target, i + 1, sum + At(p.lengths, i))

getIdByLength(p, target) ==
    IF RLeq(target, R(0)) THEN R(0)
    ELSE IF RLeq(R(p.length), target) THEN R(Len(p.lengths) - 1)
    ELSE getIdByLength_from(p, target, 0, 0)

\* contains(path, t): whether t falls on a vertex of the arc-length table
RECURSIVE contains_from(_, _, _, _)
contains_from(p, target, i, elapsed) ==
    IF i >= Len(p.lengths) THEN FALSE
    ELSE IF RLeq(target, R(elapsed))
         THEN RLeq(R(elapsed), target)
         ELSE contains_from(p, target, i + 1, elapsed + At(p.lengths, i))

contains(p, t) ==
    IF t = R(0) \/ t = R(1) THEN TRUE
    ELSE contains_from(p, RMul(R(p.length), t), 0, 0)

\* getComponentOnCubicBezier(t, a, b, c, d)
getComponentOnCubicBezier(t, a, b, c, d) ==
    LET k == RSub(R(1), t) IN
    RAdd(RAdd(RMul(RMul(RMul(k, k), k), a),
              RMul(RMul(RMul(R(3), RMul(k, k)), t), b)),
         RAdd(RMul(RMul(RMul(R(3), k), RMul(t, t)), c),
              RMul(RMul(RMul(t, t), t), d)))

\* G20.lerp(target, alpha) on a pair
lerp2(v, target, alpha) == <<lerp(v[1], target[1], alpha), lerp(v[2], target[2], alpha)>>

\* Anchor.copy(v), into an anchor of the working storage (its t is not copied)
copy(work, v) ==
    [work EXCEPT !.x = R(v.x), !.y = R(v.y), !.command = v.command,
                 !.left = v.left, !.right = v.right, !.relative = v.relative]

----------------------------------------------------------------------------
(* Path.getPointAt, with the Length flag clear (as inside update) *)

\* the segment of the table that encloses the target: <<i, sum>>, or <<-1, 0>>
RECURSIVE getPointAt_find(_, _, _, _)
getPointAt_find(p, target, i, sum) ==
    IF i >= Len(p.lengths) THEN <<-1, 0>>
    ELSE IF RLeq(target, R(sum + At(p.lengths, i))) THEN <<i, sum>>
    ELSE getPointAt_find(p, target, i + 1, sum + At(p.lengths, i))

\* the indices ia, ib of the anchors that enclose segment i
getPointAt_ia(p, i) ==
    LET Nvs == Len(p.vertices) IN
    IF p.closed THEN (IF i = 0 THEN mod(i - 1, Nvs) ELSE mod(i, Nvs)) ELSE i

getPointAt_ib(p, i) ==
    LET Nvs == Len(p.vertices)
        last == Nvs - 1
        lo == IF i - 1 > 0 THEN i - 1 ELSE 0
    IN  IF p.closed THEN (IF i = 0 THEN i ELSE mod(i - 1, Nvs))
        ELSE (IF lo < last THEN lo ELSE last)

\* the handle de Casteljau's construction leaves between p1, p2 and p3:
\* brx = lerp(lerp(x1, x2, t), lerp(x2, x3, t), t), and likewise bry, alx, aly
getPointAt_handle(p1, p2, p3, t) == lerp(lerp(p1, p2, t), lerp(p2, p3, t), t)

\* ank.x = x, ank.y = y, the handles (made relative when the anchor is), ank.t = t
getPointAt_set(ank, x, y, br, al, t) ==
    [ank EXCEPT !.x = x, !.y = y,
                !.left = IF ank.relative THEN <<RSub(br[1], x), RSub(br[2], y)>> ELSE br,
                !.right = IF ank.relative THEN <<RSub(al[1], x), RSub(al[2], y)>> ELSE al,
                !.t = t]

\* the point of the cubic (x1, y1) .. (x4, y4) at t and its handles
getPointAt_cubic(ank, t, x1, y1, x2, y2, x3, y3, x4, y4) ==
    getPointAt_set(ank,
                   getComponentOnCubicBezier(t, x1, x2, x3, x4),
                   getComponentOnCubicBezier(t, y1, y2, y3, y4),
                   <<getPointAt_handle(x1, x2, x3, t), getPointAt_handle(y1, y2, y3, t)>>,
                   <<getPointAt_handle(x2, x3, x4, t), getPointAt_handle(y2, y3, y4, t)>>,
                   t)

\* the anchor getPointAt writes for the segment from b to a: the control
\* points are the handles, added to the origins when the anchors are relative
getPointAt_write(ank, a, b, t) ==
    getPointAt_cubic(ank, t,
                     R(b.x), R(b.y),
                     IF b.relative THEN RAdd(b.right[1], R(b.x)) ELSE b.right[1],
                     IF b.relative THEN RAdd(b.right[2], R(b.y)) ELSE b.right[2],
                     IF a.relative THEN RAdd(a.left[1], R(a.x)) ELSE a.left[1],
                     IF a.relative THEN RAdd(a.left[2], R(a.y)) ELSE a.left[2],
                     R(a.x), R(a.y))

\* a local parameter that is always 0
getPointAt_t_zero(p, target, i, sum) == R(0)

\* the local parameter on segment i, `sum` being the length before it
getPointAt_t(p, target, i, sum) ==
    IF At(p.lengths, i) # 0
    THEN RDiv(RSub(target, R(sum)), R(At(p.lengths, i)))
    ELSE R(0)

\* after the search loop: null when no segment was found or an enclosing
\* vertex does not exist (the anchor is left as it was), else the point
getPointAt_between(w, ank, i, ia, ib, t) ==
    IF i < 0 THEN ank
    ELSE IF ia < 0 \/ ia >= Len(w.p.vertices) \/ ib < 0 \/ ib >= Len(w.p.vertices) THEN ank
    ELSE getPointAt_write(ank, w.a[At(w.p.vertices, ia)], w.a[At(w.p.vertices, ib)], t)

getPointAt_segment(w, ank, target, found) ==
    IF found[1] < 0 THEN ank
    ELSE getPointAt_between(w, ank, found[1],
                            getPointAt_ia(w.p, found[1]), getPointAt_ib(w.p, found[1]),
                            getPointAt_t(w.p, target, found[1], found[2]))

getPointAt_target(w, ank, target) ==
    getPointAt_segment(w, ank, target, getPointAt_find(w.p, target, 0, 0))

\* getPointAt(t, ank): the anchor as it is left
getPointAt(w, t, ank) ==
    getPointAt_target(w, ank, RMul(R(w.p.length), RMin(RMax(t, R(0)), R(1))))

----------------------------------------------------------------------------
(* Path.update *)

\* v.controls.right.clear() when v is relative, else .copy(v.origin)
clear_right(v) == [v EXCEPT !.right = IF v.relative THEN Zero2 ELSE <<v.x, v.y>>]
clear_left(v) == [v EXCEPT !.left = IF v.relative THEN Zero2 ELSE <<v.x, v.y>>]

\* the trimmed end point v is stored and listed, and the right handle of the
\* working anchor before it is projected over 1 - v.t
update_end_store(st, i, v, prev) ==
    [st EXCEPT !.anchors = [[@ EXCEPT ![i + 1] = v]
                               EXCEPT ![i].right =
                                   lerp2(prev.right,
                                         IF prev.relative THEN Zero2
                                                          ELSE <<R(prev.x), R(prev.y)>>,
                                         RSub(R(1), v.t))],
               !.zzz = Append(@, i),
               !.right = TRUE]

\* `if (prev && prev.controls)`: there is a vertex before i
update_end_project(w, st, i, v) ==
    IF i - 1 >= 0
    THEN update_end_store(st, i, clear_right(v), w.a[At(w.p.vertices, i - 1)])
    ELSE [st EXCEPT !.anchors[i + 1] = v, !.zzz = Append(@, i), !.right = TRUE]

\* the branch `i > uBound && !right`: the trimmed end point
update_end(w, st, i, ending) ==
    update_end_project(w, st, i,
                       getPointAt(w, ending, copy(At(st.anchors, i), w.a[At(w.p.vertices, i)])))

\* the copied vertex v, cut at the right end or at the left end of the trim
update_copy_cut(w, st, i, v, isRight, isLeft) ==
    [st EXCEPT !.anchors[i + 1] =
                   IF isRight
                   THEN (IF ~w.p.closed THEN clear_right(v) ELSE v)
                   ELSE IF isLeft
                   THEN (IF ~w.p.closed THEN clear_left([v EXCEPT !.command = "M"])
                                        ELSE [v EXCEPT !.command = "M"])
                   ELSE v,
               !.zzz = Append(@, i),
               !.right = @ \/ isRight,
               !.left = @ \/ (~isRight /\ isLeft)]

\* the branch `i >= lBound && i <= uBound`: a verbatim copy, cut at the ends
update_copy(w, st, i, lBound, uBound, beginning, ending) ==
    update_copy_cut(w, st, i, copy(At(st.anchors, i), w.a[At(w.p.vertices, i)]),
                    i = uBound /\ contains(w.p, ending),
                    i = lBound /\ contains(w.p, beginning))

\* `if (this.#anchors.length <= i) this.#anchors.push(new Anchor(...))`
update_grow(st, i) ==
    IF Len(st.anchors) <= i THEN [st EXCEPT !.anchors = Append(@, NewWorkAnchor)] ELSE st

\* the body of the for loop at index i
update_step(w, st, i, lBound, uBound, beginning, ending) ==
    IF i > uBound /\ ~st.right
    THEN update_end(w, st, i, ending)
    ELSE IF i >= lBound /\ i <= uBound
    THEN update_copy(w, st, i, lBound, uBound, beginning, ending)
    ELSE st

\* the for loop of update over the vertices
RECURSIVE update_loop(_, _, _, _, _, _, _)
update_loop(w, st, i, lBound, uBound, beginning, ending) ==
    IF i >= Len(w.p.vertices) THEN st
    ELSE update_loop(w, update_step(w, update_grow(st, i), i, lBound, uBound, beginning, ending),
                     i + 1, lBound, uBound, beginning, ending)

\* "Prepend the trimmed point if necessary": copying a vertex that does not
\* exist throws a TypeError
update_prepend_throws(w, st, lBound) ==
    lBound > 0 /\ ~st.left
    /\ (lBound - 1 >= Len(st.anchors) \/ lBound - 1 >= Len(w.p.vertices))

\* the trimmed start point v is stored and listed first, and the left handle of
\* the working anchor after it is projected over v.t
update_prepend_store_pushed(st, i, v, next) ==
    [st EXCEPT !.anchors = [[@ EXCEPT ![i + 1] = v]
                               EXCEPT ![i + 2].left =
                                   lerp2(next.left,
                                         IF next.relative THEN Zero2
                                                          ELSE <<R(next.x), R(next.y)>>,
                                         v.t)],
               !.zzz = Append(@, i)]

update_prepend_store(st, i, v, next) ==
    [st EXCEPT !.anchors = [[@ EXCEPT ![i + 1] = v]
                               EXCEPT ![i + 2].left =
                                   lerp2(next.left,
                                         IF next.relative THEN Zero2
                                                          ELSE <<R(next.x), R(next.y)>>,
                                         v.t)],
               !.zzz = <<i>> \o @]

\* `if (next && next.controls)`: there is a vertex after i
update_prepend_project(w, st, i, v) ==
    IF i + 1 < Len(w.p.vertices)
    THEN update_prepend_store(st, i, [v EXCEPT !.left = Zero2], w.a[At(w.p.vertices, i + 1)])
    ELSE [st EXCEPT !.anchors[i + 1] = v, !.zzz = <<i>> \o @]

update_prepend_as_copied(w, st, lBound, beginning) ==
    IF ~(lBound > 0 /\ ~st.left) THEN st
    ELSE update_prepend_project(
             w, st, lBound - 1,
             getPointAt(w, beginning,
                        copy(At(st.anchors, lBound - 1), w.a[At(w.p.vertices, lBound - 1)])))

update_prepend(w, st, lBound, beginning) ==
    IF ~(lBound > 0 /\ ~st.left) THEN st
    ELSE update_prepend_project(
             w, st, lBound - 1,
             [getPointAt(w, beginning,
                         copy(At(st.anchors, lBound - 1), w.a[At(w.p.vertices, lBound - 1)]))
                EXCEPT !.command = "M"])

\* the end of the Vertices branch: the buffer is stored and the version of
\* zzz.vertices incremented
update_commit(w, st) ==
    [w EXCEPT !.p.anchors = st.anchors, !.p.zzz = st.zzz, !.p.version = @ + 1]

\* the prepend, which may throw and leave the buffer of the loop behind
update_finish(w, st, lBound, beginning) ==
    IF update_prepend_throws(w, st, lBound)
    THEN [w EXCEPT !.p.anchors = st.anchors, !.p.zzz = st.zzz, !.threw = TRUE]
    ELSE update_commit(w, update_prepend(w, st, lBound, beginning))

\* this.zzz.vertices.length = 0, and the loop
update_buffer(w, beginning, ending, lBound, uBound) ==
    update_finish(w,
                  update_loop(w, [anchors |-> w.p.anchors, zzz |-> <<>>,
                                  right |-> FALSE, left |-> FALSE],
                              0, lBound, uBound, beginning, ending),
                  lBound, beginning)

\* lBound = Math.ceil(getIdByLength(this, beginning * this.length)), uBound likewise
update_bounds(w, beginning, ending) ==
    update_buffer(w, beginning, ending,
                  Ceil(getIdByLength(w.p, RMul(beginning, R(w.p.length)))),
                  Floor(getIdByLength(w.p, RMul(ending, R(w.p.length)))))

\* a trim that takes beginning and ending as they are stored
update_trim_unordered(w) == update_bounds(w, Frac(w.p.beginning), Frac(w.p.ending))

\* beginning = min(this.beginning, this.ending), ending = max(...)
update_trim(w) ==
    update_bounds(w,
                  Frac(IF w.p.beginning < w.p.ending THEN w.p.beginning ELSE w.p.ending),
                  Frac(IF w.p.beginning < w.p.ending THEN w.p.ending ELSE w.p.beginning))

\* `if (this.flags[Flag.Length]) this.#updateLength(undefined, true)`
update_lengths(w) == IF w.p.flags["Length"] THEN updateLength_silent(w) ELSE w

\* the body of `if (this.flags[Flag.Vertices])`
\* the Vertices branch of an update that plots whether the Path is automatic or not
update_vertices_plotting(w) == update_trim(update_lengths(plot(w)))

update_vertices(w) == update_trim(update_lengths(IF w.p.automatic THEN plot(w) ELSE w))

\* an update() that rebuilds the render buffer whatever the Vertices flag
update_unguarded(w) == update_vertices(w)

\* an update() that clears the Vertices flag it has served
update_clearing(w) ==
    IF w.p.flags["Vertices"]
    THEN [update_vertices(w) EXCEPT !.p.flags["Vertices"] = FALSE]
    ELSE w

\* Path.update()
update(w) == IF w.p.flags["Vertices"] THEN update_vertices(w) ELSE w

\* a flagReset that leaves the Length flag as it is
flagReset_but_length(w, dirtyFlag) ==
    [w EXCEPT !.p.flags = [f \in Flags |->
                              IF f \in PathFlags \ {"Length"} THEN dirtyFlag ELSE @[f]]]

\* Path.flagReset(dirtyFlag): the flags the Path names
flagReset(w, dirtyFlag) ==
    [w EXCEPT !.p.flags = [f \in Flags |-> IF f \in PathFlags THEN dirtyFlag ELSE @[f]]]

----------------------------------------------------------------------------
(* Rectangle *)

\* vertices.getAt(k).origin.set(x, y).sub(origin): two writes of the origin
rect_place(w, k, x, y) ==
    LET a == At(w.p.vertices, k) IN
    anchor_set_origin(anchor_set_origin(w, a, x, y),
                      a, x - w.p.origin[1], y - w.p.origin[2])

\* the corner the k-th vertex is placed at
rect_corner(w, k) ==
    LET xr == w.p.width \div 2
        yr == w.p.height \div 2
    IN  IF k = 0 THEN <<-xr, -yr>>
        ELSE IF k = 1 THEN <<xr, -yr>>
        ELSE IF k = 2 THEN <<xr, yr>>
        ELSE IF k = 3 THEN <<-xr, yr>>
        ELSE <<-xr, -yr>>

\* the four getAt(k).origin writes; a missing vertex throws a TypeError
RECURSIVE rect_corners_from(_, _)
rect_corners_from(w, k) ==
    IF k >= RectCorners THEN w
    ELSE IF k >= Len(w.p.vertices) THEN [w EXCEPT !.threw = TRUE]
    ELSE rect_corners_from(rect_place(w, k, rect_corner(w, k)[1], rect_corner(w, k)[2]), k + 1)

\* the anchor Rectangle.update appends to an open rectangle: new Anchor(G20.vector(0, 0))
rect_extra == RectCorners + 1

\* `if (!this.closed && this.vertices.length === 4) this.vertices.push(new Anchor(...))`
rect_open(w) ==
    IF ~w.p.closed /\ Len(w.p.vertices) = RectCorners
    THEN collection_push([w EXCEPT !.a[rect_extra] = NewAnchor(0, 0, "M")], rect_extra)
    ELSE w

\* a fifth anchor that is placed and keeps its command
rect_fifth_placed(w) ==
    IF w.threw \/ Len(w.p.vertices) <= RectCorners THEN w
    ELSE rect_place(w, RectCorners, rect_corner(w, RectCorners)[1],
                    rect_corner(w, RectCorners)[2])

\* `const anchor = this.vertices.getAt(4); if (anchor) { ... }`
rect_fifth(w) ==
    IF w.threw \/ Len(w.p.vertices) <= RectCorners THEN w
    ELSE anchor_set_command(
             rect_place(w, RectCorners, rect_corner(w, RectCorners)[1],
                        rect_corner(w, RectCorners)[2]),
             At(w.p.vertices, RectCorners), "L")

\* the body of `if (Vertices || Width || Height)` of Rectangle.update
rect_regenerate(w) == rect_fifth(rect_corners_from(rect_open(w), 0))

\* super.update.call(this), reached unless the body threw
rect_super_update(w) == IF w.threw THEN w ELSE update(w)

\* a Rectangle.update() that regenerates on the Vertices flag alone
rect_update_on_vertices(w) ==
    rect_super_update(IF w.p.flags["Vertices"] THEN rect_regenerate(w) ELSE w)

\* Rectangle.update()
rect_update(w) ==
    rect_super_update(IF w.p.flags["Vertices"] \/ w.p.flags["Width"] \/ w.p.flags["Height"]
                      THEN rect_regenerate(w)
                      ELSE w)

\* Rectangle.flagReset(dirtyFlag)
rect_flagReset(w, dirtyFlag) ==
    flagReset([w EXCEPT !.p.flags["Width"] = dirtyFlag, !.p.flags["Height"] = dirtyFlag],
              dirtyFlag)

\* Rectangle.dispose(): releases the subscription to the origin, and nothing else
rect_dispose(w) == [w EXCEPT !.p.origin_change = FALSE]

----------------------------------------------------------------------------
(* Fitter of lib/two.ts *)

\* the elements a Fitter is pointed at; 0 stands for null
Elements == {1, 2}

\* new Fitter(two, view): #target = null, #target_resize = null; subs lists
\* every Subscription that subscribe() obtained, with the element it listens
\* to and whether it was unsubscribed
new_Fitter == [target |-> 0, target_resize |-> 0, subs |-> <<>>, threw |-> FALSE]

\* Fitter.is_bound()
Fitter_is_bound(f) == f.target_resize # 0

\* Fitter.unsubscribe()
Fitter_unsubscribe(f) ==
    IF f.target_resize # 0
    THEN [f EXCEPT !.subs[f.target_resize].closed = TRUE, !.target_resize = 0]
    ELSE f

\* fromEvent(this.#target, 'resize').pipe(debounceTime(200)).subscribe(...):
\* a TypeError on a null target, else a new Subscription listening to it
fromEvent_subscribe(f) ==
    IF f.target = 0 THEN [f EXCEPT !.threw = TRUE]
    ELSE [f EXCEPT !.subs = Append(@, [target |-> f.target, closed |-> FALSE]),
                   !.target_resize = Len(f.subs) + 1]

\* a subscribe() that does not unsubscribe first
Fitter_subscribe_over(f) == fromEvent_subscribe(f)

\* Fitter.subscribe()
Fitter_subscribe(f) == fromEvent_subscribe(Fitter_unsubscribe(f))

\* Fitter.set_target(target)
Fitter_set_target(f, target) == [f EXCEPT !.target = target]

\* Fitter.dispose()
Fitter_dispose(f) == Fitter_unsubscribe(f)

----------------------------------------------------------------------------
(* Gradient; g = the fields of the Gradient, with subs[s] the number of live
   subscriptions it holds on stop s.change$ and table the ids that are keys of
   _stop_subscriptions *)

\* the Stop objects
Stops == {1, 2, 3}

\* stop.change$.subscribe(...) stored under stop.id, over whatever was there
stop_subscribe(g, s) == [g EXCEPT !.subs[s] = @ + 1, !.table = @ \cup {s}]

\* the insert$ handler of #set_children, from the last stop to the first
RECURSIVE stops_insert_handler(_, _)
stops_insert_handler(g, s) ==
    IF s = <<>> THEN g
    ELSE stops_insert_handler(stop_subscribe(g, Last(s)), SubSeq(s, 1, Len(s) - 1))

\* the remove$ handler of #set_children: a stop without an entry in the table
\* makes subscription.dispose() throw a TypeError
RECURSIVE stops_remove_handler(_, _)
stops_remove_handler(g, s) ==
    IF s = <<>> \/ g.threw THEN g
    ELSE LET x == Last(s) IN
         IF x \notin g.table THEN [g EXCEPT !.threw = TRUE]
         ELSE stops_remove_handler([g EXCEPT !.subs[x] = @ - 1, !.table = @ \ {x}],
                                   SubSeq(s, 1, Len(s) - 1))

\* this._stops.ping(): insert$ emits the children of the collection
Children_ping(g) ==
    IF g.stops_insert /\ g.stops # <<>> THEN stops_insert_handler(g, g.stops) ELSE g

\* #set_children(children)
set_children(g, children) ==
    Children_ping([g EXCEPT !.stops = children, !.has_stops = TRUE,
                            !.stops_insert = TRUE, !.stops_remove = TRUE])

\* #unset_children(): the two listeners on the collection are disposed, then
\* the collection; no listener is left to hear of its stops
unset_children(g) ==
    [g EXCEPT !.stops_insert = FALSE, !.stops_remove = FALSE,
              !.stops = <<>>, !.has_stops = FALSE]

\* the fields of a Gradient before its constructor body runs
GradientFields ==
    [stops |-> <<>>, has_stops |-> FALSE, stops_insert |-> FALSE, stops_remove |-> FALSE,
     subs |-> [s \in Stops |-> 0], table |-> {}, flagStops |-> FALSE, threw |-> FALSE]

\* new Gradient(stops)
new_Gradient(stops) == set_children(GradientFields, stops)

\* Gradient.dispose()
Gradient_dispose(g) == unset_children(g)

\* set stops(stops)
Gradient_set_stops(g, stops) == set_children(unset_children(g), stops)

\* Gradient.flagReset(dirtyFlag)
Gradient_flagReset(g, dirtyFlag) == [g EXCEPT !.flagStops = dirtyFlag]

\* the collection's push(stop) and pop(): insert$ and remove$ emit once
Children_push(g, s) ==
    LET g1 == [g EXCEPT !.stops = Append(@, s)] IN
    IF g.stops_insert THEN stops_insert_handler(g1, <<s>>) ELSE g1

Children_pop(g) ==
    LET g1 == [g EXCEPT !.stops = SubSeq(@, 1, Len(@) - 1)] IN
    IF g.stops_remove THEN stops_remove_handler(g1, <<Last(g.stops)>>) ELSE g1

\* stop.change$ emits: every live subscription of the Gradient to it sets _flagStops
stop_change(g, s) == [g EXCEPT !.flagStops = @ \/ g.subs[s] > 0]

----------------------------------------------------------------------------
(* Two of lib/two.ts; tw = [two |-> the fields of the Two, fitter |-> its Fitter] *)

\* document.body among the elements
Body == 1

\* what getBoundingClientRect() of an element returns: its width and height
ElementSize(e) == <<100 * e, 50 * e>>

\* the size compute_config_size gives when the options name none
DefaultSize == <<640, 480>>

\* new Two(): no resizeTo and no container in the options, so the View is
\* given the default size, which the subscription to view.size$ (live from
\* here on) copies to width and height; #frameCount starts with the value 0
new_Two ==
    [view_resize |-> TRUE, view_closed |-> FALSE,
     width |-> DefaultSize[1], height |-> DefaultSize[2],
     view |-> DefaultSize, frameCount |-> 0, emitted |-> 0]

\* view.setSize(size, ratio): the View takes the size and size$ emits it; the
\* subscription of the constructor, while live, copies it to width and height
View_setSize(tw, size) ==
    IF tw.two.view_closed
    THEN [tw EXCEPT !.two.view = size]
    ELSE [tw EXCEPT !.two.view = size, !.two.width = size[1], !.two.height = size[2]]

\* Fitter.resize(): a TypeError on a null target
Fitter_resize(tw) ==
    IF tw.fitter.target = 0 THEN [tw EXCEPT !.fitter.threw = TRUE]
    ELSE View_setSize([tw EXCEPT !.two.width = ElementSize(tw.fitter.target)[1],
                                 !.two.height = ElementSize(tw.fitter.target)[2]],
                      ElementSize(tw.fitter.target))

\* `if (has_target() && !is_bound()) { subscribe(); resize(); }`
Two_update_bind(tw) ==
    IF tw.fitter.target # 0 /\ ~Fitter_is_bound(tw.fitter)
    THEN Fitter_resize([tw EXCEPT !.fitter = Fitter_subscribe(@)])
    ELSE tw

\* `if (width !== renderer.width || height !== renderer.height) renderer.setSize(...)`
Two_update_size(tw) ==
    IF <<tw.two.width, tw.two.height>> # tw.two.view
    THEN View_setSize(tw, <<tw.two.width, tw.two.height>>)
    ELSE tw

\* this.#frameCount.next(this.frameCount++)
Two_update_count(tw) ==
    [tw EXCEPT !.two.emitted = tw.two.frameCount, !.two.frameCount = @ + 1]

\* Two.update()
Two_update(tw) == Two_update_count(Two_update_size(Two_update_bind(tw)))

\* Two.appendTo(container), container an element
Two_appendTo(tw, container) ==
    Two_update(IF tw.fitter.target # Body
               THEN [tw EXCEPT !.fitter = Fitter_set_target(@, container)]
               ELSE tw)

\* Two.dispose()
Two_dispose(tw) ==
    [tw EXCEPT !.two.view_closed = @ \/ tw.two.view_resize,
               !.two.view_resize = FALSE,
               !.fitter = Fitter_unsubscribe(@)]

----------------------------------------------------------------------------
(* Calls through `this`: the method of the object's class *)

this_update(w) == IF w.p.isRect THEN rect_update(w) ELSE update(w)
this_flagReset(w, d) == IF w.p.isRect THEN rect_flagReset(w, d) ELSE flagReset(w, d)

\* #updateLength(): update() first, then the table
updateLength_after(w) == IF w.threw THEN w ELSE updateLength_silent(w)

updateLength(w) == updateLength_after(this_update(w))

\* a getter that recomputes on every read
length_always(w) == updateLength(w)

\* get length(): recomputes when the Length flag is dirty
length(w) == IF w.p.flags["Length"] THEN updateLength(w) ELSE w

\* Path.getBoundingClientRect(), the Path being scaled uniformly by p.scale and
\* not otherwise transformed: M.multiply_vector(x, y) is (scale x, scale y).
multiply_vector(p, xy) == <<RMul(R(p.scale), xy[1]), RMul(R(p.scale), xy[2])>>

\* a border of the whole stroke width, not of half of it
getBoundingClientRect_whole_border(p) ==
    IF p.stroke_width > 0
    THEN RMul(R(p.scale), R(p.stroke_width))
    ELSE R(p.stroke_width)

\* border = (strokeWidth || 0) / 2, times the scale when strokeWidth > 0
getBoundingClientRect_border(p) ==
    IF p.stroke_width > 0
    THEN RMul(R(p.scale), RDiv(R(p.stroke_width), R(2)))
    ELSE RDiv(R(p.stroke_width), R(2))

\* the control points of the segment from v0 to v1, transformed: v0, v0's right
\* handle, v1's left handle, v1
getBoundingClientRect_controls(p, v0, v1) ==
    << multiply_vector(p, <<v0.x, v0.y>>),
       multiply_vector(p, IF v0.relative
                          THEN <<RAdd(v0.right[1], v0.x), RAdd(v0.right[2], v0.y)>>
                          ELSE v0.right),
       multiply_vector(p, IF v1.relative
                          THEN <<RAdd(v1.left[1], v1.x), RAdd(v1.left[2], v1.y)>>
                          ELSE v1.left),
       multiply_vector(p, <<v1.x, v1.y>>) >>

\* getCurveBoundingBox of a segment whose control points lie on it (the handles
\* are zero): the extremes over the four points, coordinate k
getCurveBoundingBox_min(c, k) == RMin(RMin(c[1][k], c[2][k]), RMin(c[3][k], c[4][k]))
getCurveBoundingBox_max(c, k) == RMax(RMax(c[1][k], c[2][k]), RMax(c[3][k], c[4][k]))

\* the loop over zzz.vertices from i on: <<left, top, right, bottom>> so far in
\* acc (<<>> stands for the infinities it starts with)
RECURSIVE getBoundingClientRect_loop(_, _, _, _)
getBoundingClientRect_loop(p, border, i, acc) ==
    IF i >= Len(p.zzz) THEN acc
    ELSE LET c == getBoundingClientRect_controls(
                      p,
                      At(p.anchors, At(p.zzz, (i + Len(p.zzz) - 1) % Len(p.zzz))),
                      At(p.anchors, At(p.zzz, i)))
             lo == <<RSub(getCurveBoundingBox_min(c, 1), border),
                     RSub(getCurveBoundingBox_min(c, 2), border)>>
             hi == <<RAdd(getCurveBoundingBox_max(c, 1), border),
                     RAdd(getCurveBoundingBox_max(c, 2), border)>>
         IN  getBoundingClientRect_loop(
                 p, border, i + 1,
                 IF acc = <<>> THEN <<lo[1], lo[2], hi[1], hi[2]>>
                 ELSE <<RMin(lo[1], acc[1]), RMin(lo[2], acc[2]),
                        RMax(hi[1], acc[3]), RMax(hi[2], acc[4])>>)

\* the value returned: {width: 0, height: 0} for an empty buffer, else the
\* sides <<left, top, right, bottom>> and width and height
getBoundingClientRect_result(sides) ==
    IF sides = <<>> THEN [width |-> R(0), height |-> R(0), sides |-> <<>>]
    ELSE [width |-> RSub(sides[3], sides[1]), height |-> RSub(sides[4], sides[2]),
          sides |-> sides]

getBoundingClientRect_after(w) ==
    [w |-> w,
     rect |-> IF w.threw THEN NoRect
              ELSE getBoundingClientRect_result(
                       getBoundingClientRect_loop(w.p, getBoundingClientRect_border(w.p),
                                                  0, <<>>))]

\* getBoundingClientRect(): update() first, then the rect
getBoundingClientRect(w) == getBoundingClientRect_after(this_update(w))

\* Path.getPointAt as the caller calls it: `this.length` is the getter.
\* What the call returns once segment i was chosen: "null" (no segment),
\* "diverges" (mod(-1, 0) never leaves its loop), "undefined" or "vertex" (an
\* enclosing vertex does not exist: `if (!a) return b; else if (!b) return a`),
\* or "ank" (the output anchor, written)
getPointAt_returns(p, i) ==
    IF i < 0 THEN "null"
    ELSE IF p.closed /\ Len(p.vertices) = 0
         THEN (IF i = 0 THEN "diverges" ELSE "undefined")
    ELSE IF getPointAt_ia(p, i) < 0 \/ getPointAt_ia(p, i) >= Len(p.vertices)
         THEN (IF getPointAt_ib(p, i) < 0 \/ getPointAt_ib(p, i) >= Len(p.vertices)
               THEN "undefined" ELSE "vertex")
    ELSE IF getPointAt_ib(p, i) < 0 \/ getPointAt_ib(p, i) >= Len(p.vertices)
         THEN "vertex"
    ELSE "ank"

\* the call, the length being read: the world, the output anchor, the return value
getPointAt_answer(w, t, ank, ret) ==
    [w |-> w, ret |-> ret, ank |-> IF ret = "ank" THEN getPointAt(w, t, ank) ELSE ank]

getPointAt_read(w, t, ank) ==
    IF w.threw THEN [w |-> w, ret |-> "throws", ank |-> ank]
    ELSE getPointAt_answer(w, t, ank,
             getPointAt_returns(w.p,
                 getPointAt_find(w.p, RMul(R(w.p.length), RMin(RMax(t, R(0)), R(1))),
                                 0, 0)[1]))

\* path.getPointAt(t, ank)
this_getPointAt(w, t, ank) == getPointAt_read(length(w), t, ank)

\* a strokeWidth setter that also marks the vertices dirty
set_strokeWidth_and_vertices(w, n) ==
    IF w.p.stroke_width # n
    THEN [w EXCEPT !.p.stroke_width = n, !.p.flags["Linewidth"] = TRUE,
                   !.p.flags["Vertices"] = TRUE]
    ELSE w

\* plain colors, and color providers (objects with a change$ stream)
Colors == {"#fff", "#000"}
Providers == {"g1", "g2"}

\* is_color_provider(paint)
is_color_provider(paint) == paint \in Providers

\* `if (this.#fill_change) { this.#fill_change.dispose(); this.#fill_change = null; }`
\* paint[g].fill counts the live subscriptions of the fill setter to g.change$
fill_release(w) ==
    IF w.p.fill_change # "null"
    THEN [w EXCEPT !.p.paint[w.p.fill_change].fill = @ - 1, !.p.fill_change = "null"]
    ELSE w

\* the assignment and, for a color provider, the subscription
fill_hold(w, fill) ==
    LET w1 == [w EXCEPT !.p.fill = fill, !.p.flags["Fill"] = TRUE] IN
    IF is_color_provider(fill)
    THEN [w1 EXCEPT !.p.paint[fill].fill = @ + 1, !.p.fill_change = fill]
    ELSE w1

\* a fill setter that does not dispose the subscription it holds
set_fill_over(w, fill) == fill_hold(w, fill)

\* set fill(fill)
set_fill(w, fill) == fill_hold(fill_release(w), fill)

stroke_release(w) ==
    IF w.p.stroke_change # "null"
    THEN [w EXCEPT !.p.paint[w.p.stroke_change].stroke = @ - 1, !.p.stroke_change = "null"]
    ELSE w

stroke_hold(w, stroke) ==
    LET w1 == [w EXCEPT !.p.stroke = stroke, !.p.flags["Stroke"] = TRUE] IN
    IF is_color_provider(stroke)
    THEN [w1 EXCEPT !.p.paint[stroke].stroke = @ + 1, !.p.stroke_change = stroke]
    ELSE w1

\* set stroke(stroke)
set_stroke(w, stroke) == stroke_hold(stroke_release(w), stroke)

\* g.change$ emits: every live subscription of the Path to it runs its callback
provider_change(w, g) ==
    [w EXCEPT !.p.flags["Fill"] = @ \/ w.p.paint[g].fill > 0,
              !.p.flags["Stroke"] = @ \/ w.p.paint[g].stroke > 0]

\* set strokeWidth(n): only a different value is stored and flagged
set_strokeWidth(w, n) ==
    IF w.p.stroke_width # n
    THEN [w EXCEPT !.p.stroke_width = n, !.p.flags["Linewidth"] = TRUE]
    ELSE w

set_beginning(w, e) == [w EXCEPT !.p.beginning = e, !.p.flags["Vertices"] = TRUE]
set_ending(w, e) == [w EXCEPT !.p.ending = e, !.p.flags["Vertices"] = TRUE]
set_closed(w, b) == [w EXCEPT !.p.closed = b, !.p.flags["Vertices"] = TRUE]

\* set curved(b), for the value the Path holds (false): stored and flagged
set_curved(w, b) == [w EXCEPT !.p.flags["Vertices"] = TRUE]

\* set automatic(b): returns early on an equal value
set_automatic(w, b) == IF b = w.p.automatic THEN w ELSE [w EXCEPT !.p.automatic = b]

\* Path.subdivide(limit), for limit = 1 and straight segments.
\* getSubdivisions(a, b, 1): the point at b and the point of the cubic at
\* t = 1/2; the single point at a when the two ends coincide
getSubdivisions(ax, ay, bx, by) ==
    IF ax = bx /\ ay = by
    THEN << <<R(ax), R(ay)>> >>
    ELSE << <<R(bx), R(by)>>,
            <<getComponentOnCubicBezier(Norm(1, 2), R(bx), R(bx), R(ax), R(ax)),
              getComponentOnCubicBezier(Norm(1, 2), R(by), R(by), R(ay), R(ay))>> >>

\* `v.command = i <= 0 && b.command === Commands.move ? Commands.move : Commands.line`
subdivide_verts(verts, bcommand) ==
    [k \in 1 .. Len(verts) |->
        [x |-> verts[k][1], y |-> verts[k][2],
         command |-> IF k = 1 /\ bcommand = "M" THEN "M" ELSE "L"]]

\* points[points.length - 1].command = c
subdivide_last_command(points, c) ==
    [points EXCEPT ![Len(points)].command = c]

\* the block `if (i >= last)`: the closing points and the command of the last point
subdivide_close(w, points, a, closed) ==
    subdivide_last_command(
        IF w.p.closed /\ w.p.automatic
        THEN points \o subdivide_verts(getSubdivisions(w.a[a].x, w.a[a].y,
                                                       w.a[a].x, w.a[a].y),
                                       w.a[a].command)
        ELSE IF closed
        THEN Append(points, [x |-> R(w.a[a].x), y |-> R(w.a[a].y), command |-> "M"])
        ELSE points,
        IF closed THEN "Z" ELSE "L")

\* the body of the forEach for vertex i, b being the vertex before it
subdivide_point(w, points, i, a, b, closed) ==
    IF i <= 0 /\ ~closed THEN points
    ELSE IF w.a[a].command = "M"
    THEN Append(points, [x |-> R(w.a[b].x), y |-> R(w.a[b].y),
                         command |-> IF i > 0 THEN "L" ELSE "M"])
    ELSE IF i >= Len(w.p.vertices) - 1
    THEN subdivide_close(w,
                         points \o subdivide_verts(
                             getSubdivisions(w.a[a].x, w.a[a].y, w.a[b].x, w.a[b].y),
                             w.a[b].command),
                         a, closed)
    ELSE points \o subdivide_verts(
             getSubdivisions(w.a[a].x, w.a[a].y, w.a[b].x, w.a[b].y), w.a[b].command)

RECURSIVE subdivide_points(_, _, _, _, _)
subdivide_points(w, points, i, b, closed) ==
    IF i >= Len(w.p.vertices) THEN points
    ELSE subdivide_points(w,
                          subdivide_point(w, points, i, At(w.p.vertices, i), b, closed),
                          i + 1, At(w.p.vertices, i), closed)

\* new Anchor(G20.vector(x, y)) for every point: the anchors join the heap
subdivide_allocate(h, points) ==
    [a \in 1 .. (Len(h) + Len(points)) |->
        IF a <= Len(h) THEN h[a]
        ELSE NewAnchor(points[a - Len(h)].x[1], points[a - Len(h)].y[1],
                       points[a - Len(h)].command)]

\* a subdivide that puts the points into the Collection the Path holds
subdivide_in_place(w, points) ==
    [set_vertices(
        set_curved(
            set_automatic([w EXCEPT !.a = subdivide_allocate(@, points)], FALSE),
            FALSE),
        [k \in 1 .. Len(points) |-> Len(w.a) + k])
     EXCEPT !.p.automatic = w.p.automatic]

\* this.automatic = false; this.curved = false; this.vertices = new Collection(points)
subdivide_install(w, points) ==
    set_vertices(
        set_curved(
            set_automatic([w EXCEPT !.a = subdivide_allocate(@, points),
                                    !.p.collection = @ + 1],
                          FALSE),
            FALSE),
        [k \in 1 .. Len(points) |-> Len(w.a) + k])

\* after this.update(): `closed`, the points, and the three assignments; an open
\* Path without a vertex throws on `this.vertices.getAt(last).command`
subdivide_after(w) ==
    IF w.threw THEN w
    ELSE IF w.p.vertices = <<>>
    THEN (IF w.p.closed THEN subdivide_install(w, <<>>) ELSE [w EXCEPT !.threw = TRUE])
    ELSE subdivide_install(
             w,
             subdivide_points(w, <<>>, 0, Last(w.p.vertices),
                              w.p.closed \/ w.a[Last(w.p.vertices)].command = "Z"))

subdivide(w) == subdivide_after(this_update(w))

set_width(w, n) == [w EXCEPT !.p.width = n, !.p.flags["Width"] = TRUE]
set_height(w, n) == [w EXCEPT !.p.height = n, !.p.flags["Height"] = TRUE]

\* the callback of #origin_change
origin_change_callback(w) == [w EXCEPT !.p.flags["Vertices"] = TRUE]

\* set origin(o): #origin.copyVector(o), which emits a change when the value
\* changes, then the Vertices flag
set_origin(w, o) ==
    LET w1 == IF w.p.origin # o /\ w.p.origin_change
              THEN origin_change_callback([w EXCEPT !.p.origin = o])
              ELSE [w EXCEPT !.p.origin = o]
    IN  [w1 EXCEPT !.p.flags["Vertices"] = TRUE]

----------------------------------------------------------------------------
(* The Anchor class of utils/math.ts: fields held in signals, Vectors by reference *)

\* the two Anchor objects: `this` of a call and the `other` it copies from
UAnchors == {1, 2}
\* the Vector objects: origin, controls.left and controls.right of each Anchor
VecIds == {"o1", "l1", "r1", "o2", "l2", "r2"}
VecVals == {<<0, 0>>, <<1, 2>>}
\* the fields held in a signal, and the values the callers assign
SignalFields == {"command", "relative", "rx", "ry", "xAxisRotation", "largeArcFlag", "sweepFlag"}
FieldVals(f) ==
    IF f = "command" THEN Commands
    ELSE IF f = "relative" THEN BOOLEAN
    ELSE {0, 1}

\* new Anchor(x, y, ax, ay, bx, by, command): the object, its Vectors being o, l, r
new_Anchor(o, l, r, command) ==
    [origin |-> o, left |-> l, right |-> r,
     command |-> command, relative |-> TRUE,
     rx |-> 0, ry |-> 0, xAxisRotation |-> 0, largeArcFlag |-> 0, sweepFlag |-> 1]

\* two anchors constructed with no arguments; no call made yet
UAnchorInit ==
    [vec |-> [id \in VecIds |-> <<0, 0>>],
     obj |-> [a \in UAnchors |->
                 IF a = 1 THEN new_Anchor("o1", "l1", "r1", "M")
                          ELSE new_Anchor("o2", "l2", "r2", "M")],
     wrote |-> {},
     call |-> <<>>]

\* Vector.set(x, y) and Vector.copy(v) on the Vector objects id and from
Vector_set(u, id, xy) == [u EXCEPT !.vec[id] = xy]
Vector_copy(u, id, from) == [u EXCEPT !.vec[id] = u.vec[from]]

\* this.#f[1](v): the signal is written (and notifies its observers)
signal_write(u, a, f, v) == [u EXCEPT !.obj[a][f] = v, !.wrote = @ \cup {<<a, f>>}]

\* a signal setter that writes whatever the current value
signal_set_always(u, a, f, v) == signal_write(u, a, f, v)

\* `if (this.f !== v) this.#f[1](v)`
signal_set(u, a, f, v) == IF u.obj[a][f] # v THEN signal_write(u, a, f, v) ELSE u

\* !!relative
ToBoolean(v) == v = TRUE

\* the setters of Anchor
Anchor_command(u, a, v) == signal_set(u, a, "command", v)
Anchor_relative(u, a, v) ==
    IF u.obj[a].relative # ToBoolean(v) THEN signal_write(u, a, "relative", v) ELSE u
Anchor_rx(u, a, v) == signal_set(u, a, "rx", v)
Anchor_ry(u, a, v) == signal_set(u, a, "ry", v)
Anchor_xAxisRotation(u, a, v) == signal_set(u, a, "xAxisRotation", v)
Anchor_largeArcFlag(u, a, v) == signal_set(u, a, "largeArcFlag", v)
Anchor_sweepFlag(u, a, v) == signal_set(u, a, "sweepFlag", v)

\* `anchor.f = v`, dispatched on the name of the field
Anchor_set(u, a, f, v) ==
    IF f = "command" THEN Anchor_command(u, a, v)
    ELSE IF f = "relative" THEN Anchor_relative(u, a, v)
    ELSE IF f = "rx" THEN Anchor_rx(u, a, v)
    ELSE IF f = "ry" THEN Anchor_ry(u, a, v)
    ELSE IF f = "xAxisRotation" THEN Anchor_xAxisRotation(u, a, v)
    ELSE IF f = "largeArcFlag" THEN Anchor_largeArcFlag(u, a, v)
    ELSE Anchor_sweepFlag(u, a, v)

\* a copy that takes the origin Vector of v for its own instead of copying it
Anchor_copy_sharing(u, a, v) == [u EXCEPT !.obj[a].origin = u.obj[v].origin]

\* the statements of Anchor.copy(v), in their order
Anchor_copy_origin(u, a, v) == Vector_copy(u, u.obj[a].origin, u.obj[v].origin)
Anchor_copy_command(u, a, v) == Anchor_command(u, a, u.obj[v].command)
Anchor_copy_left(u, a, v) == Vector_copy(u, u.obj[a].left, u.obj[v].left)
Anchor_copy_right(u, a, v) == Vector_copy(u, u.obj[a].right, u.obj[v].right)
Anchor_copy_relative(u, a, v) == Anchor_relative(u, a, u.obj[v].relative)
Anchor_copy_rx(u, a, v) == Anchor_rx(u, a, u.obj[v].rx)
Anchor_copy_ry(u, a, v) == Anchor_ry(u, a, u.obj[v].ry)
Anchor_copy_xAxisRotation(u, a, v) == Anchor_xAxisRotation(u, a, u.obj[v].xAxisRotation)
Anchor_copy_largeArcFlag(u, a, v) == Anchor_largeArcFlag(u, a, u.obj[v].largeArcFlag)
Anchor_copy_sweepFlag(u, a, v) == Anchor_sweepFlag(u, a, u.obj[v].sweepFlag)

\* Anchor.copy(v)
Anchor_copy(u, a, v) ==
    Anchor_copy_sweepFlag(
      Anchor_copy_largeArcFlag(
        Anchor_copy_xAxisRotation(
          Anchor_copy_ry(
            Anchor_copy_rx(
              Anchor_copy_relative(
                Anchor_copy_right(
                  Anchor_copy_left(
                    Anchor_copy_command(
                      Anchor_copy_origin(u, a, v), a, v), a, v), a, v), a, v), a, v), a, v),
          a, v), a, v), a, v)

\* what a caller sees of an Anchor: every field, the Vectors by their values
AnchorView(u, a) ==
    [u.obj[a] EXCEPT !.origin = u.vec[@], !.left = u.vec[@], !.right = u.vec[@]]

\* the values a caller assigns to every field of an Anchor at once
Profiles ==
    {[origin |-> <<0, 0>>, left |-> <<0, 0>>, right |-> <<0, 0>>, command |-> "M",
      relative |-> TRUE, rx |-> 0, ry |-> 0, xAxisRotation |-> 0, largeArcFlag |-> 0,
      sweepFlag |-> 1],
     [origin |-> <<1, 2>>, left |-> <<1, 2>>, right |-> <<1, 2>>, command |-> "L",
      relative |-> FALSE, rx |-> 1, ry |-> 1, xAxisRotation |-> 1, largeArcFlag |-> 1,
      sweepFlag |-> 0],
     [origin |-> <<1, 2>>, left |-> <<0, 0>>, right |-> <<1, 2>>, command |-> "M",
      relative |-> FALSE, rx |-> 0, ry |-> 1, xAxisRotation |-> 0, largeArcFlag |-> 1,
      sweepFlag |-> 1]}

\* the caller assigns every field: origin.set, controls.left.set,
\* controls.right.set, and the seven setters
RECURSIVE Anchor_set_each(_, _, _, _)
Anchor_set_each(u, a, fs, pr) ==
    IF fs = {} THEN u
    ELSE LET f == CHOOSE g \in fs : TRUE
         IN  Anchor_set_each(Anchor_set(u, a, f, pr[f]), a, fs \ {f}, pr)

Anchor_assign(u, a, pr) ==
    Anchor_set_each(
        Vector_set(Vector_set(Vector_set(u, u.obj[a].origin, pr.origin),
                              u.obj[a].left, pr.left),
                   u.obj[a].right, pr.right),
        a, SignalFields, pr)

----------------------------------------------------------------------------
(* Construction *)

\* the fields of a Path before its constructor body runs
PathFields ==
    [isRect |-> FALSE,
     length |-> 0, lengths |-> <<>>,
     closed |-> TRUE, automatic |-> TRUE, beginning |-> 0, ending |-> TDen * Fine,
     stroke_width |-> 1,
     fill |-> "#fff", fill_change |-> "null",
     stroke |-> "#000", stroke_change |-> "null",
     paint |-> [g \in Providers |-> [fill |-> 0, stroke |-> 0]],
     flags |-> [f \in Flags |-> FALSE],
     vertices |-> <<>>, vertices_insert |-> FALSE, vertices_remove |-> FALSE,
     anchors |-> <<>>, zzz |-> <<>>, version |-> 0,
     map |-> {},
     collection |-> 0,
     scale |-> 1,
     width |-> 0, height |-> 0, origin |-> <<0, 0>>, origin_change |-> FALSE]

\* new Path(board, vertices, closed, curved = false, manual)
new_Path(heap, vertices, closed, manual) ==
    LET w0 == [a |-> heap, p |-> PathFields, threw |-> FALSE]
        w1 == flagReset(w0, TRUE)
        w2 == [w1 EXCEPT !.p.flags["Mask"] = FALSE, !.p.flags["Clip"] = FALSE]
        w3 == set_ending(set_beginning(set_closed(w2, closed), 0), TDen * Fine)
        w4 == set_strokeWidth(w3, 1)
        w5 == set_vertices(w4, vertices)
    IN  set_automatic(w5, ~manual)

\* new Rectangle(board, {width, height})
new_Rectangle(width, height) ==
    LET heap == [a \in Anchors |->
                    IF a = 1 THEN NewAnchor(0, 0, "M") ELSE NewAnchor(0, 0, "L")]
        verts == [k \in 1 .. RectCorners |-> k]
        w0 == new_Path(heap, verts, TRUE, TRUE)
        w1 == [w0 EXCEPT !.p.isRect = TRUE, !.p.origin_change = TRUE,
                         !.p.width = width, !.p.height = height]
    IN  rect_update(rect_flagReset(w1, TRUE))

\* the same Path at twice the size: the midpoints of its segments are integers
WideHeap == [a \in Anchors |-> NewAnchor(2 * InitPt(a)[1], 2 * InitPt(a)[2], "M")]

\* the unit square
SquarePt(a) ==
    IF a = 1 THEN <<0, 0>> ELSE IF a = 2 THEN <<1, 0>> ELSE IF a = 3 THEN <<1, 1>> ELSE <<0, 1>>
SquareHeap == [a \in Anchors |-> NewAnchor(SquarePt(a)[1], SquarePt(a)[2], "M")]
SquareVertices == <<1, 2, 3, 4>>

PathHeap == [a \in Anchors |-> NewAnchor(InitPt(a)[1], InitPt(a)[2], "M")]
PathVertices == <<1, 2, 3>>

\* the state a constructor leaves
Constructed(w) ==
    /\ anchor = w.a
    /\ path = w.p
    /\ lastOp = "new"
    /\ threw = FALSE
    /\ uanchor = UAnchorInit
    /\ out = [t |-> 0, ank |-> OutAnchor, ret |-> "none"]
    /\ rect = NoRect
    /\ fitter = new_Fitter
    /\ calc = NoCall
    /\ two = new_Two
    /\ gradient = new_Gradient(<<1, 2>>)

\* a Path over the three anchors, open or closed, automatic or manual, or a Rectangle
Init ==
    \E w \in {new_Path(PathHeap, PathVertices, c, m) : c \in BOOLEAN, m \in BOOLEAN}
              \cup {new_Rectangle(6, 8)} : Constructed(w)

\* an automatic Path: open, closed, or either
InitOpen == Constructed(new_Path(PathHeap, PathVertices, FALSE, FALSE))
InitClosed == Constructed(new_Path(PathHeap, PathVertices, TRUE, FALSE))
InitPath == InitOpen \/ InitClosed
\* the unit square as a closed, automatic Path
InitSquare == Constructed(new_Path(SquareHeap, SquareVertices, TRUE, FALSE))
\* a Path at twice the size, open or closed, automatic or manual
InitWide ==
    \E c \in BOOLEAN, m \in BOOLEAN : Constructed(new_Path(WideHeap, PathVertices, c, m))
\* an open Path constructed with manual = true
InitManual == Constructed(new_Path(PathHeap, PathVertices, FALSE, TRUE))

\* a Rectangle
InitRect == Constructed(new_Rectangle(6, 8))

----------------------------------------------------------------------------
(* Operations of the caller *)

\* the state an operation leaves
Does(op, w) ==
    /\ anchor' = w.a
    /\ path' = w.p
    /\ threw' = w.threw
    /\ lastOp' = op
    /\ UNCHANGED <<uanchor, out, rect, fitter, calc, two, gradient>>

\* the sequences without repetition over a set
RECURSIVE InjSeqs(_)
InjSeqs(S) == {<<>>} \cup UNION {{<<x>> \o s : s \in InjSeqs(S \ {x})} : x \in S}

\* path.vertices = new Collection(s)
SetVertices ==
    /\ ~path.isRect
    /\ \E s \in InjSeqs(PathAnchors) :
          /\ \A a \in Range(s) : anchor[a].subs < MaxSubs
          /\ Does("SetVertices", set_vertices(World, s))

\* path.vertices.push(a)
Push ==
    /\ ~path.isRect
    /\ \E a \in PathAnchors \ Range(path.vertices) :
          /\ anchor[a].subs < MaxSubs
          /\ Does("Push", collection_push(World, a))

\* path.vertices.push(a) of an anchor the collection already holds
PushAgain ==
    /\ ~path.isRect
    /\ \E a \in Range(path.vertices) :
          /\ anchor[a].subs < MaxSubs
          /\ Does("PushAgain", collection_push(World, a))

\* path.vertices.pop()
Pop ==
    /\ ~path.isRect
    /\ path.vertices # <<>>
    /\ Does("Pop", collection_pop(World))

\* the anchors the caller holds
Held == IF path.isRect THEN Range(path.vertices) ELSE PathAnchors

\* anchor.origin.set(x, y) with a different value
MutateOrigin ==
    \E a \in Held, pt \in Pts :
        /\ pt # <<anchor[a].x, anchor[a].y>>
        /\ Does("MutateOrigin", anchor_set_origin(World, a, pt[1], pt[2]))

\* anchor.command = c with a different value
SetCommand ==
    /\ ~path.isRect
    /\ \E a \in Held, c \in Commands :
          /\ c # anchor[a].command
          /\ Does("SetCommand", anchor_set_command(World, a, c))

\* the anchor whose origin the caller moves in the specifications that follow the geometry
Movable == {2}

\* where it is moved: onto the first vertex, and back
MovePts == {<<0, 0>>, <<3, 0>>}

MoveVertex ==
    \E a \in Movable \cap Held, pt \in MovePts :
        /\ pt # <<anchor[a].x, anchor[a].y>>
        /\ Does("MoveVertex", anchor_set_origin(World, a, pt[1], pt[2]))

SetClosed == \E b \in BOOLEAN : Does("SetClosed", set_closed(World, b))
SetCurved == ~path.isRect /\ Does("SetCurved", set_curved(World, FALSE))
SetAutomatic == \E b \in BOOLEAN : Does("SetAutomatic", set_automatic(World, b))
SetBeginning == \E e \in 0 .. TDen : Does("SetBeginning", set_beginning(World, e * Fine))
SetEnding == \E e \in 0 .. TDen : Does("SetEnding", set_ending(World, e * Fine))
\* the same setters over the finer grid of fractions
SetBeginningFine ==
    \E e \in 0 .. TDen * Fine : Does("SetBeginningFine", set_beginning(World, e))
SetEndingFine ==
    \E e \in 0 .. TDen * Fine : Does("SetEndingFine", set_ending(World, e))
SetStrokeWidth == \E n \in {1, 2} : Does("SetStrokeWidth", set_strokeWidth(World, n))
FlagReset == \E d \in BOOLEAN : Does("FlagReset", this_flagReset(World, d))

\* the version counter of zzz.vertices is followed up to MaxVersion
Commit(op, w) == w.p.version <= MaxVersion /\ Does(op, w)

\* shape.update()
Update == Commit("Update", this_update(World))

\* reading shape.length
ReadLength == Commit("ReadLength", length(World))

SetWidth == path.isRect /\ \E n \in Sizes : Does("SetWidth", set_width(World, n))
SetHeight == path.isRect /\ \E n \in Sizes : Does("SetHeight", set_height(World, n))
SetOrigin == path.isRect /\ \E o \in RectOrigins : Does("SetOrigin", set_origin(World, o))
Dispose == path.isRect /\ Does("Dispose", rect_dispose(World))

\* path.fill = v, path.stroke = v, and a change of a color provider
SetFill == \E v \in Colors \cup Providers : Does("SetFill", set_fill(World, v))
SetStroke == \E v \in Colors \cup Providers : Does("SetStroke", set_stroke(World, v))
ProviderChange == \E g \in Providers : Does("ProviderChange", provider_change(World, g))

\* path.strokeWidth = 0
SetNoStroke == Does("SetNoStroke", set_strokeWidth(World, 0))

\* path.scale = s
SetScale == \E s \in {1, 2} : Does("SetScale", [World EXCEPT !.p.scale = s])

\* the state a call of getBoundingClientRect leaves
DoesGetBoundingClientRect(r) ==
    /\ r.w.p.version <= MaxVersion
    /\ anchor' = r.w.a
    /\ path' = r.w.p
    /\ threw' = r.w.threw
    /\ lastOp' = "GetBoundingClientRect"
    /\ rect' = r.rect
    /\ UNCHANGED <<uanchor, out, fitter, calc, two, gradient>>

\* path.getBoundingClientRect()
GetBoundingClientRect ==
    /\ ~path.isRect
    /\ DoesGetBoundingClientRect(getBoundingClientRect(World))

\* path.subdivide(1), on a Path whose vertices have even coordinates (the
\* midpoints are then integers, as the coordinates of the model are)
Subdivide ==
    /\ ~path.isRect
    /\ path.collection < MaxSubdivisions
    /\ \A a \in Range(path.vertices) : anchor[a].x % 2 = 0 /\ anchor[a].y % 2 = 0
    /\ Commit("Subdivide", subdivide(World))

\* the state a call of getPointAt by the caller leaves
DoesGetPointAt(t, r) ==
    /\ r.w.p.version <= MaxVersion
    /\ anchor' = r.w.a
    /\ path' = r.w.p
    /\ threw' = r.w.threw
    /\ lastOp' = "GetPointAt"
    /\ out' = [t |-> t, ank |-> r.ank, ret |-> r.ret]
    /\ UNCHANGED <<uanchor, rect, fitter, calc, two, gradient>>

\* path.getPointAt(t / TDen, new Anchor(G20.vector(1, 1)))
GetPointAt ==
    /\ ~path.isRect
    /\ \E t \in 0 .. TDen : DoesGetPointAt(t, this_getPointAt(World, Frac(t * Fine), OutAnchor))

\* the state a call of a function of utils/math.ts leaves
DoesCalc(fn, args, ret) ==
    /\ calc' = [fn |-> fn, args |-> args, ret |-> ret]
    /\ lastOp' = fn
    /\ UNCHANGED <<anchor, path, threw, uanchor, out, rect, fitter, two, gradient>>

\* mod(v, l), l > 0
Mod ==
    \E v \in -MaxModArg .. MaxModArg, l \in 1 .. MaxModulus :
        DoesCalc("mod", <<v, l>>, R(mod(v, l)))

\* getPoT(value)
PoTArgs == (1 .. MaxPoTArg) \cup {pots[k] + d : k \in 1 .. Len(pots), d \in {-1, 0, 1}}
GetPoT == \E value \in PoTArgs : DoesCalc("getPoT", <<value>>, getPoT(value))

\* the state a call on the Gradient leaves; the subscriptions on a stop are
\* followed up to MaxSubs
DoesGradient(op, g) ==
    /\ \A s \in Stops : g.subs[s] <= MaxSubs
    /\ gradient' = g
    /\ lastOp' = op
    /\ UNCHANGED <<anchor, path, threw, uanchor, out, rect, fitter, calc, two>>

\* the Gradient before a call: nothing thrown yet
GradientNow == [gradient EXCEPT !.threw = FALSE]

\* gradient.stops = s, for the lists of at most two different stops
GradientSetStops ==
    \E s \in {x \in InjSeqs(Stops) : Len(x) <= 2} :
        DoesGradient("GradientSetStops", Gradient_set_stops(GradientNow, s))
GradientDispose == DoesGradient("GradientDispose", Gradient_dispose(GradientNow))
GradientFlagReset ==
    \E d \in BOOLEAN : DoesGradient("GradientFlagReset", Gradient_flagReset(GradientNow, d))
GradientPush ==
    /\ gradient.has_stops
    /\ \E s \in Stops \ Range(gradient.stops) :
           DoesGradient("GradientPush", Children_push(GradientNow, s))
GradientPop ==
    /\ gradient.has_stops /\ gradient.stops # <<>>
    /\ DoesGradient("GradientPop", Children_pop(GradientNow))
StopChange == \E s \in Stops : DoesGradient("StopChange", stop_change(GradientNow, s))

\* the state a call on the Two leaves
DoesTwo(op, tw) ==
    /\ tw.two.frameCount <= MaxFrames
    /\ Len(tw.fitter.subs) <= MaxResizeSubs
    /\ two' = tw.two
    /\ fitter' = tw.fitter
    /\ lastOp' = op
    /\ UNCHANGED <<anchor, path, threw, uanchor, out, rect, calc, gradient>>

\* the Two and its Fitter before a call: nothing thrown yet
TwoNow == [two |-> two, fitter |-> [fitter EXCEPT !.threw = FALSE]]

TwoUpdate == DoesTwo("TwoUpdate", Two_update(TwoNow))
TwoAppendTo == \E e \in Elements : DoesTwo("TwoAppendTo", Two_appendTo(TwoNow, e))
TwoDispose == DoesTwo("TwoDispose", Two_dispose(TwoNow))

\* the state a call on the Fitter leaves
DoesFitter(op, f) ==
    /\ fitter' = f
    /\ lastOp' = op
    /\ UNCHANGED <<anchor, path, threw, uanchor, out, rect, calc, two, gradient>>

\* the Fitter before a call: nothing thrown yet
FitterNow == [fitter EXCEPT !.threw = FALSE]

FitterSubscribe ==
    /\ Len(fitter.subs) < MaxResizeSubs
    /\ DoesFitter("FitterSubscribe", Fitter_subscribe(FitterNow))
FitterUnsubscribe == DoesFitter("FitterUnsubscribe", Fitter_unsubscribe(FitterNow))
FitterSetTarget ==
    \E t \in Elements : DoesFitter("FitterSetTarget", Fitter_set_target(FitterNow, t))
FitterDispose == DoesFitter("FitterDispose", Fitter_dispose(FitterNow))

\* the state a call on the Anchors of utils/math.ts leaves
DoesAnchor(op, call, u) ==
    /\ uanchor' = [u EXCEPT !.call = call]
    /\ lastOp' = op
    /\ UNCHANGED <<anchor, path, threw, out, rect, fitter, calc, two, gradient>>

\* the Anchors before a call: nothing written yet
UAnchorsNow == [uanchor EXCEPT !.wrote = {}]

\* this.f = v, for a field held in a signal
AnchorSet ==
    \E f \in SignalFields : \E v \in FieldVals(f) :
        DoesAnchor("AnchorSet", <<1, f, v>>, Anchor_set(UAnchorsNow, 1, f, v))

\* this.origin.set(..), this.controls.left.set(..), this.controls.right.set(..)
AnchorSetVector ==
    \E id \in {"o1", "l1", "r1"}, xy \in VecVals :
        DoesAnchor("AnchorSetVector", <<1, id, xy>>, Vector_set(UAnchorsNow, id, xy))

\* the caller assigns every field of other
AnchorAssignOther ==
    \E pr \in Profiles :
        DoesAnchor("AnchorAssignOther", <<2, pr>>, Anchor_assign(UAnchorsNow, 2, pr))

\* this.copy(other), and this.copy(this)
AnchorCopy ==
    \E v \in UAnchors :
        DoesAnchor("AnchorCopy", <<1, v>>, Anchor_copy(UAnchorsNow, 1, v))

Next ==
    \/ GradientSetStops
    \/ GradientDispose
    \/ GradientFlagReset
    \/ GradientPush
    \/ GradientPop
    \/ StopChange
    \/ SetFill
    \/ SetStroke
    \/ ProviderChange
    \/ TwoUpdate
    \/ TwoAppendTo
    \/ TwoDispose
    \/ Mod
    \/ GetPoT
    \/ FitterSubscribe
    \/ FitterUnsubscribe
    \/ FitterSetTarget
    \/ FitterDispose
    \/ SetBeginningFine
    \/ SetEndingFine
    \/ SetNoStroke
    \/ SetScale
    \/ GetBoundingClientRect
    \/ Subdivide
    \/ PushAgain
    \/ GetPointAt
    \/ AnchorSet
    \/ AnchorSetVector
    \/ AnchorAssignOther
    \/ AnchorCopy
    \/ SetVertices
    \/ Push
    \/ Pop
    \/ MutateOrigin
    \/ SetCommand
    \/ SetClosed
    \/ SetCurved
    \/ SetAutomatic
    \/ SetBeginning
    \/ SetEnding
    \/ SetStrokeWidth
    \/ FlagReset
    \/ Update
    \/ ReadLength
    \/ SetWidth
    \/ SetHeight
    \/ SetOrigin
    \/ Dispose

Spec == Init /\ [][Next]_vars

(* The specifications below restrict Next to the operations a family of
   properties depends on, so that every reachable state is explored. *)

\* subscriptions and flags of a Path: no update, so no derived geometry
NextSubs ==
    \/ SetVertices
    \/ Push
    \/ Pop
    \/ MutateOrigin
    \/ SetStrokeWidth
    \/ FlagReset

SpecSubs == InitOpen /\ [][NextSubs]_vars

\* a Rectangle and its disposal
NextRect ==
    \/ MoveVertex
    \/ SetWidth
    \/ SetHeight
    \/ SetOrigin
    \/ SetClosed
    \/ FlagReset
    \/ Update
    \/ Dispose

SpecRect == InitRect /\ [][NextRect]_vars

\* the arc-length table of a Path under insertions, removals and moves
NextLen ==
    \/ Push
    \/ Pop
    \/ MoveVertex
    \/ FlagReset
    \/ Update
    \/ ReadLength

SpecLen == InitOpen /\ [][NextLen]_vars

\* the same, of a closed Path
SpecClosed == InitClosed /\ [][NextLen]_vars

\* the render buffer of a Path under trimming
NextTrim ==
    \/ SetBeginning
    \/ SetEnding
    \/ Pop
    \/ FlagReset
    \/ Update

SpecTrim == InitPath /\ [][NextTrim]_vars

\* the render buffer of an open Path under trimming over the finer grid
NextWindow ==
    \/ SetBeginningFine
    \/ SetEndingFine
    \/ MoveVertex
    \/ Update

SpecWindow == InitOpen /\ [][NextWindow]_vars

\* the property setters of a Path and of a Rectangle, between flag resets
NextSetters ==
    \/ SetClosed
    \/ SetCurved
    \/ SetAutomatic
    \/ SetBeginning
    \/ SetEnding
    \/ SetStrokeWidth
    \/ SetWidth
    \/ SetHeight
    \/ SetOrigin
    \/ FlagReset

SpecSetters == Init /\ [][NextSetters]_vars

\* the paints of a Path
NextPaint ==
    \/ SetFill
    \/ SetStroke
    \/ ProviderChange
    \/ FlagReset

SpecPaint == InitOpen /\ [][NextPaint]_vars

\* the commands of the vertices: the caller sets them, update() plots them
NextPlot ==
    \/ SetCommand
    \/ SetAutomatic
    \/ Pop
    \/ FlagReset
    \/ Update

SpecPlot == InitOpen /\ [][NextPlot]_vars

\* a manual Path: the caller sets commands and trims, update() builds the buffer
NextManual ==
    \/ SetCommand
    \/ SetBeginning
    \/ SetEnding
    \/ Update

SpecManual == InitManual /\ [][NextManual]_vars

\* the bounding rect of the unit square
NextBounds ==
    \/ SetStrokeWidth
    \/ SetNoStroke
    \/ SetScale
    \/ SetClosed
    \/ FlagReset
    \/ Update
    \/ GetBoundingClientRect

SpecBounds == InitSquare /\ [][NextBounds]_vars

\* a Path that is subdivided
NextSubdivide ==
    \/ SetCommand
    \/ SetClosed
    \/ SetAutomatic
    \/ Pop
    \/ Subdivide

SpecSubdivide == InitWide /\ [][NextSubdivide]_vars

\* a collection that may hold an anchor more than once
NextRemove ==
    \/ Push
    \/ PushAgain
    \/ Pop
    \/ FlagReset

SpecRemove == InitOpen /\ [][NextRemove]_vars

\* points of a Path whose vertices are taken away
NextPoint ==
    \/ Pop
    \/ MoveVertex
    \/ FlagReset
    \/ Update
    \/ GetPointAt

SpecPoint == InitPath /\ [][NextPoint]_vars

\* the Anchor class of utils/math.ts on its own
NextAnchor ==
    \/ AnchorSet
    \/ AnchorSetVector
    \/ AnchorAssignOther
    \/ AnchorCopy

SpecAnchor == InitOpen /\ [][NextAnchor]_vars

\* the functions of utils/math.ts on their own
NextMath ==
    \/ Mod
    \/ GetPoT

SpecMath == InitOpen /\ [][NextMath]_vars

\* a Two, its Fitter reached through it and directly
NextTwo ==
    \/ TwoUpdate
    \/ TwoAppendTo
    \/ TwoDispose
    \/ FitterSetTarget
    \/ FitterUnsubscribe

SpecTwo == InitOpen /\ [][NextTwo]_vars

\* a Gradient and its stops
NextGradient ==
    \/ GradientSetStops
    \/ GradientDispose
    \/ GradientFlagReset
    \/ GradientPush
    \/ GradientPop
    \/ StopChange

SpecGradient == InitOpen /\ [][NextGradient]_vars

\* the Fitter on its own
NextFitter ==
    \/ FitterSubscribe
    \/ FitterUnsubscribe
    \/ FitterSetTarget
    \/ FitterDispose

SpecFitter == InitOpen /\ [][NextFitter]_vars

----------------------------------------------------------------------------
(* Properties *)

\* the render buffer: the anchors of the working storage that zzz.vertices lists
RenderBuffer(p) == [k \in 1 .. Len(p.zzz) |-> At(p.anchors, p.zzz[k])]

\* the distance between the origins of two anchors
Distance(h, a, b) ==
    ISqrt((h[a].x - h[b].x) * (h[a].x - h[b].x) + (h[a].y - h[b].y) * (h[a].y - h[b].y))

\* the arc-length table an open path of straight segments should have
OpenLengths(h, vs) ==
    [i \in 1 .. Len(vs) |-> IF i = 1 THEN 0 ELSE Distance(h, vs[i - 1], vs[i])]

\* the length of the closing segment, from the last vertex back to the first
ClosingLength(h, vs) == IF vs = <<>> THEN 0 ELSE Distance(h, Last(vs), vs[1])

\* a step in which #updateLength ran to its end
Recomputed ==
    /\ path.flags["Length"]
    /\ lastOp' \in {"Update", "ReadLength"}
    /\ ~threw'
    /\ ~path'.flags["Length"]

\* a disposed Rectangle
Disposed == path.isRect /\ ~path.origin_change

\* C1 (as amended): two update() calls in a row, with nothing in between, leave
\* the same render buffer, and update() changes no dirty flag except Length:
\* the flags stay as they were until flagReset(false).
C1_UpdateTwice ==
    [][(lastOp' = "Update" /\ ~threw')
          => /\ \A f \in Flags \ {"Length"} : path'.flags[f] = path.flags[f]
             /\ (lastOp = "Update" /\ ~threw)
                   => RenderBuffer(path') = RenderBuffer(path)]_vars

\* C1 witness: update() has run twice on a path trimmed to its second half,
\* whose Vertices flag is still set; the render buffer holds the trimmed start
\* point and the last vertex
C1_Witness ==
    /\ lastOp = "Update" /\ ~threw
    /\ path.version = 2
    /\ path.flags["Vertices"]
    /\ path.beginning = Fine /\ path.ending = TDen * Fine
    /\ Len(path.zzz) = 2

\* C1 (as the spec has it): two update() calls in a row leave the same render
\* buffer, and every dirty flag is clear after the first call.
C1_FlagsClearedByUpdate ==
    [][(lastOp' = "Update" /\ ~threw')
          => /\ \A f \in PathFlags : ~path'.flags[f]
             /\ (lastOp = "Update" /\ ~threw)
                   => RenderBuffer(path') = RenderBuffer(path)]_vars

\* C2: after dispose() the shape holds no live subscription to an anchor, and
\* a later mutation of one of its anchors changes none of its flags.
C2_DisposeReleasesAnchors ==
    [][/\ lastOp' = "Dispose" => \A a \in Anchors : anchor'[a].subs = 0
       /\ (Disposed /\ lastOp' = "MoveVertex") => path'.flags = path.flags]_vars

\* C3: assigning a new Collection to vertices leaves no live subscription to an
\* anchor that was in the previous Collection and is not in the new one (so
\* that mutating such an anchor cannot set the Vertices flag).
C3_SetterUnsubscribesOld ==
    [][lastOp' = "SetVertices"
          => \A a \in Range(path.vertices) \ Range(path'.vertices) :
                anchor'[a].subs = 0]_vars

\* C4: assigning a new Collection to vertices subscribes to every anchor in it
\* and leaves the Vertices flag set, whatever the flag was before.
C4_SetterSubscribesAndFlags ==
    lastOp = "SetVertices"
        => /\ \A a \in Range(path.vertices) : anchor[a].subs >= 1 /\ a \in path.map
           /\ path.flags["Vertices"]

\* C5: mutating the origin of an anchor that is in the vertex collection sets
\* the Vertices flag before the mutation returns.
C5_MutationFlagsVertices ==
    [][\A a \in PathAnchors :
          (/\ lastOp' = "MutateOrigin"
           /\ <<anchor'[a].x, anchor'[a].y>> # <<anchor[a].x, anchor[a].y>>
           /\ a \in Range(path.vertices))
             => path'.flags["Vertices"]]_vars

\* C5 witness: after flagReset(false) the third anchor, which is in the
\* collection, has been moved, and Vertices is the one flag that is set
C5_Witness ==
    /\ lastOp = "MutateOrigin"
    /\ path.vertices = <<1, 2, 3>>
    /\ <<anchor[3].x, anchor[3].y>> # InitPt(3)
    /\ <<anchor[1].x, anchor[1].y>> = InitPt(1)
    /\ <<anchor[2].x, anchor[2].y>> = InitPt(2)
    /\ path.flags["Vertices"]
    /\ \A f \in PathFlags \ {"Vertices"} : ~path.flags[f]

\* C6: assigning strokeWidth changes no flag other than Linewidth; in
\* particular it never sets Vertices.
C6_StrokeWidthFlagsOnlyLinewidth ==
    [][lastOp' = "SetStrokeWidth"
          => \A f \in Flags \ {"Linewidth"} : path'.flags[f] = path.flags[f]]_vars

\* C6 witness: strokeWidth was changed while Vertices was clear; Linewidth is
\* set and Vertices still clear
C6_Witness ==
    /\ lastOp = "SetStrokeWidth"
    /\ path.stroke_width = 2
    /\ path.flags["Linewidth"]
    /\ ~path.flags["Vertices"]

\* C7: recomputing the length of a closed path leaves one entry of lengths per
\* vertex and a length that includes the segment from the last vertex back to
\* the first.
C7_ClosedLengthIncludesClosing ==
    [][(Recomputed /\ path'.closed /\ Len(path'.vertices) >= 2)
          => /\ Len(path'.lengths) = Len(path'.vertices)
             /\ path'.length = SumSeq(OpenLengths(anchor', path'.vertices))
                                  + ClosingLength(anchor', path'.vertices)]_vars

\* C8: recomputing the length of an open path of straight segments gives
\* lengths[0] = 0, lengths[i] = distance(vertex i-1, vertex i), and a length
\* that is the sum of lengths.
C8_OpenLengths ==
    [][(Recomputed /\ ~path'.closed)
          => /\ \A i \in 1 .. Len(path'.vertices) :
                   /\ i <= Len(path'.lengths)
                   /\ path'.lengths[i] = OpenLengths(anchor', path'.vertices)[i]
             /\ path'.length = SumSeq(path'.lengths)]_vars

\* C9: after a length recomputation, lengths has as many entries as vertices,
\* whatever insertions and removals came before.
C9_LengthsMatchVertices ==
    [][Recomputed => Len(path'.lengths) = Len(path'.vertices)]_vars

\* C10: after an anchor's origin is mutated, or an anchor is inserted or
\* removed, and update() is then called, reading length returns the sum of the
\* segment lengths of the current vertices of an open path.
C10_LengthNeverStale ==
    [][(/\ lastOp \in {"MoveVertex", "Push", "Pop"} /\ ~threw
        /\ lastOp' = "Update" /\ ~threw'
        /\ ~path'.closed)
          => length([a |-> anchor', p |-> path', threw |-> FALSE]).p.length
                = SumSeq(OpenLengths(anchor', path'.vertices))]_vars

\* the open path (0,0),(3,0),(3,4) of automatic plotting, its arc-length table
\* computed, trimmed to beginning = 0 and ending = 1/2, after an update() that
\* found Vertices set
TrimmedToHalf ==
    /\ lastOp = "Update" /\ ~threw
    /\ ~path.closed
    /\ path.vertices = <<1, 2, 3>>
    /\ path.lengths = <<0, 3, 4>> /\ path.length = 7
    /\ path.beginning = 0 /\ Frac(path.ending) = Norm(1, 2)
    /\ path.flags["Vertices"]

C12_VersionTracksBuffer ==
    [][/\ path'.version >= path.version
       /\ (lastOp' = "Update" /\ ~threw')
             => (path'.version # path.version
                    <=> RenderBuffer(path') # RenderBuffer(path))]_vars

\* C13: update() of a Path whose Vertices flag is clear changes nothing: the
\* render buffer, the version counter, lengths and length, and every anchor
\* are as before.
C13_UpdateCleanIsNoOp ==
    [][(lastOp' = "Update" /\ ~path.isRect /\ ~path.flags["Vertices"])
          => (path' = path /\ anchor' = anchor /\ ~threw')]_vars

\* C13 witness: a Path that was updated, lost a vertex, had its flags reset
\* and was updated again: the buffer still lists the three anchors
C13_Witness ==
    /\ lastOp = "Update"
    /\ ~path.flags["Vertices"]
    /\ path.version = 1
    /\ Len(path.zzz) = 3
    /\ Len(path.vertices) = 2

\* C14: assigning closed, curved, beginning or ending of a Path, or width or
\* height of a Rectangle, the value it already holds sets no dirty flag.
C14_SettersIdempotent ==
    [][(\/ lastOp' = "SetClosed" /\ path'.closed = path.closed
        \/ lastOp' = "SetCurved"
        \/ lastOp' = "SetBeginning" /\ path'.beginning = path.beginning
        \/ lastOp' = "SetEnding" /\ path'.ending = path.ending
        \/ lastOp' = "SetWidth" /\ path'.width = path.width
        \/ lastOp' = "SetHeight" /\ path'.height = path.height)
          => path'.flags = path.flags]_vars

\* C15: each signal setter of Anchor (command, relative, rx, ry,
\* xAxisRotation, largeArcFlag, sweepFlag) called with the value the field
\* holds writes no signal and changes nothing; called with a different value
\* it writes that one signal, and the field holds the new value.
C15_AnchorSettersNoOpOnEqual ==
    [][lastOp' = "AnchorSet"
          => LET a == uanchor'.call[1]
                 f == uanchor'.call[2]
                 v == uanchor'.call[3]
             IN  /\ uanchor'.vec = uanchor.vec
                 /\ uanchor.obj[a][f] = v
                       => uanchor'.wrote = {} /\ uanchor'.obj = uanchor.obj
                 /\ uanchor.obj[a][f] # v
                       => /\ uanchor'.wrote = {<<a, f>>}
                          /\ uanchor'.obj = [uanchor.obj EXCEPT ![a][f] = v]]_vars

\* C15 witness: sweepFlag, changed earlier to 0, was assigned 0 again: no write
C15_Witness ==
    /\ lastOp = "AnchorSet"
    /\ uanchor.call = <<1, "sweepFlag", 0>>
    /\ uanchor.obj[1].sweepFlag = 0
    /\ uanchor.wrote = {}

\* C16: after this.copy(other) every field of this equals that of other and
\* other is unchanged; assigning the fields of other afterwards leaves this
\* unchanged; and a second copy from the same anchor changes nothing.
C16_AnchorCopyIsDeep ==
    [][/\ lastOp' = "AnchorCopy"
          => /\ AnchorView(uanchor', 1) = AnchorView(uanchor, uanchor'.call[2])
             /\ AnchorView(uanchor', 2) = AnchorView(uanchor, 2)
       /\ lastOp' = "AnchorAssignOther"
          => AnchorView(uanchor', 1) = AnchorView(uanchor, 1)
       /\ (lastOp = "AnchorCopy" /\ lastOp' = "AnchorCopy" /\ uanchor'.call = uanchor.call)
          => /\ uanchor'.wrote = {}
             /\ uanchor'.obj = uanchor.obj
             /\ uanchor'.vec = uanchor.vec]_vars

\* C16 witness: this was copied from an other whose every field differs from
\* the constructor's, and other was then assigned the third profile
C16_Witness ==
    /\ lastOp = "AnchorAssignOther"
    /\ AnchorView(uanchor, 1).origin = <<1, 2>>
    /\ AnchorView(uanchor, 1).left = <<1, 2>>
    /\ AnchorView(uanchor, 1).command = "L"
    /\ AnchorView(uanchor, 1).sweepFlag = 0
    /\ AnchorView(uanchor, 1).rx = 1
    /\ AnchorView(uanchor, 2).left = <<0, 0>>
    /\ AnchorView(uanchor, 2).rx = 0

\* C17: update() of an automatic, uncurved Path whose Vertices flag is set
\* leaves vertex 0 with the Move command and every later vertex with the Line
\* command, whatever the commands were, and changes no handle, origin or
\* relative field of any anchor.
C17_PlotAssignsMoveThenLine ==
    [][(lastOp' = "Update" /\ path.automatic /\ path.flags["Vertices"])
          => /\ path'.vertices = path.vertices
             /\ \A i \in 0 .. Len(path.vertices) - 1 :
                   anchor'[At(path.vertices, i)].command = IF i = 0 THEN "M" ELSE "L"
             /\ \A a \in DOMAIN anchor :
                   anchor'[a] = [anchor[a] EXCEPT !.command = anchor'[a].command]]_vars

\* C17 witness: the caller gave vertex 0 the Line command and vertex 1 the
\* Move command, and an update of the automatic Path put them back
C17_Witness ==
    /\ lastOp = "Update" /\ ~threw
    /\ path.automatic /\ path.flags["Vertices"]
    /\ path.vertices = <<1, 2, 3>>
    /\ path.version = 2
    /\ anchor[1].command = "M" /\ anchor[2].command = "L" /\ anchor[3].command = "L"

\* C18: update() of a Path that is not automatic writes no anchor the caller
\* holds: command, origin, handles and relative of every vertex are as they
\* were, and the vertex list is the same, whatever beginning and ending are.
C18_ManualUpdateLeavesVertices ==
    [][(lastOp' = "Update" /\ ~path.automatic /\ ~path.isRect)
          => anchor' = anchor /\ path'.vertices = path.vertices]_vars

\* C18 witness: a manual Path trimmed to its second half was updated twice;
\* the buffer holds the trimmed point and the last vertex, and the vertices
\* still carry the Move commands they were constructed with
C18_Witness ==
    /\ lastOp = "Update" /\ ~threw
    /\ ~path.automatic /\ path.flags["Vertices"]
    /\ Frac(path.beginning) = Norm(1, 2) /\ Frac(path.ending) = R(1)
    /\ path.version = 2
    /\ Len(path.zzz) = 2
    /\ \A a \in Range(path.vertices) : anchor[a].command = "M"

\* the Path with the values of beginning and ending exchanged
Exchanged == [World EXCEPT !.p.beginning = path.ending, !.p.ending = path.beginning]

\* C19: an update() builds the same render buffer (same version, same
\* outcome) as it would with the values of beginning and ending exchanged,
\* and leaves the stored beginning and ending as the caller assigned them.
C19_TrimIgnoresOrder ==
    [][(lastOp' = "Update" /\ path.flags["Vertices"])
          => /\ RenderBuffer(path') = RenderBuffer(update(Exchanged).p)
             /\ path'.version = update(Exchanged).p.version
             /\ threw' = update(Exchanged).threw
             /\ path'.beginning = path.beginning
             /\ path'.ending = path.ending]_vars

\* C19 witness: beginning = 1 and ending = 1/2 were assigned to the open Path,
\* and the update built the buffer of the second half: two points
C19_Witness ==
    /\ lastOp = "Update" /\ ~threw
    /\ ~path.closed /\ path.flags["Vertices"]
    /\ Len(path.vertices) = 3
    /\ Frac(path.beginning) = R(1) /\ Frac(path.ending) = Norm(1, 2)
    /\ Len(path.zzz) = 2
    /\ Last(RenderBuffer(path)).x = R(3) /\ Last(RenderBuffer(path)).y = R(4)

\* C20: getPointAt on a Path whose total length is 0 or that has no vertex
\* returns null, without throwing and without writing the output anchor; and
\* it returns null only when no segment of the table encloses the target.
C20_NullOnDegeneratePath ==
    lastOp = "GetPointAt"
        => /\ (path.length = 0 \/ path.vertices = <<>>)
                 => out.ret = "null" /\ out.ank = OutAnchor /\ ~threw
           /\ out.ret = "null"
                 => getPointAt_find(path, RMul(R(path.length), Frac(out.t * Fine)), 0, 0)[1] < 0

\* C21: when the collection reports the removal of an anchor for which the
\* Path holds no change subscription, the remove$ handler throws: nothing is
\* released, the map is as it was; and it throws in no other case.
C21_RemoveUnsubscribedThrows ==
    [][(lastOp' = "Pop" /\ path.vertices_remove)
          => /\ threw' <=> Last(path.vertices) \notin path.map
             /\ Last(path.vertices) \notin path.map
                   => path'.map = path.map /\ anchor' = anchor]_vars

\* C21 witness: an anchor held twice by the collection was popped twice; the
\* second removal found no subscription and threw
C21_Witness ==
    /\ lastOp = "Pop" /\ threw
    /\ path.vertices = <<1, 2>>
    /\ 3 \notin path.map
    /\ anchor[3].subs = 1

\* the entry of vertex i (1-based) in a recomputed table: 0 for the first
\* vertex and for a vertex with the Move command, else the distance from the
\* vertex before it
EntryOf(h, vs, i) ==
    IF i = 1 \/ h[vs[i]].command = "M" THEN 0 ELSE Distance(h, vs[i - 1], vs[i])

\* C22 (as the code has it): in a recomputation the segment that ends at an
\* anchor with the Move command contributes zero to lengths and to length;
\* every other segment contributes its length.
C22_SegmentIntoMoveIsZero ==
    [][Recomputed
          => /\ \A i \in 1 .. Len(path'.vertices) :
                   path'.lengths[i] = EntryOf(anchor', path'.vertices, i)
             /\ path'.length
                   = SumSeq([i \in 1 .. Len(path'.vertices) |->
                                EntryOf(anchor', path'.vertices, i)])]_vars

\* C22 witness: a manual Path whose third anchor has the Move command was
\* measured: the segment into that anchor counts 0, the one before it 3
C22_Witness ==
    /\ lastOp = "Update" /\ ~path.flags["Length"]
    /\ ~path.automatic
    /\ anchor[2].command = "L" /\ anchor[3].command = "M"
    /\ path.lengths = <<0, 3, 0>>
    /\ path.length = 3

\* C22 (as stated): in a recomputation the segment that starts at an anchor
\* with the Move command contributes zero.
C22_SegmentFromMoveIsZero ==
    [][Recomputed
          => \A i \in 1 .. Len(path'.vertices) - 1 :
                anchor'[path'.vertices[i]].command = "M" => path'.lengths[i + 1] = 0]_vars

\* C23: reading length while the Length flag is set recomputes the table
\* within the read (every entry of a current vertex and the total are those of
\* the current vertices) and leaves the flag clear; reading it while the flag
\* is clear changes nothing: the cached value is returned.
C23_LengthReadIsLazy ==
    [][lastOp' = "ReadLength"
          => /\ (path.flags["Length"] /\ ~threw')
                   => /\ ~path'.flags["Length"]
                      /\ \A i \in 1 .. Len(path'.vertices) :
                            path'.lengths[i] = EntryOf(anchor', path'.vertices, i)
                      /\ path'.length
                            = SumSeq([i \in 1 .. Len(path'.vertices) |->
                                         EntryOf(anchor', path'.vertices, i)])
             /\ ~path.flags["Length"]
                   => path' = path /\ anchor' = anchor /\ ~threw']_vars

\* C23 witness: the first read of length, after the second anchor was moved
\* onto the first: the read ran the update and measured 0 + 0 + 5
C23_Witness ==
    /\ lastOp = "ReadLength" /\ ~threw
    /\ ~path.flags["Length"]
    /\ path.version = 1
    /\ path.lengths = <<0, 0, 5>>
    /\ path.length = 5

\* the dirty flags a shape has: those of a Path, and Width and Height for a Rectangle
FlagsOf(p) == IF p.isRect THEN Flags ELSE PathFlags

\* C24: flagReset(d) leaves every dirty flag of the shape equal to d, for d
\* true and for d false: the eleven flags of a Path, and Width and Height as
\* well for a Rectangle; it changes nothing else.
C24_FlagResetSetsEveryFlag ==
    [][lastOp' = "FlagReset"
          => /\ \E d \in BOOLEAN : \A f \in FlagsOf(path) : path'.flags[f] = d
             /\ path' = [path EXCEPT !.flags = path'.flags]
             /\ anchor' = anchor]_vars

\* C24 witness: a Rectangle after flagReset(true): all thirteen flags are
\* set, Mask and Clip included, which its constructor had cleared
C24_Witness ==
    /\ lastOp = "FlagReset"
    /\ path.isRect
    /\ \A f \in Flags : path.flags[f]

UnitSquare(h, p) ==
    /\ p.vertices = SquareVertices
    /\ \A a \in Range(SquareVertices) : <<h[a].x, h[a].y>> = SquarePt(a)
    /\ p.scale = 1

\* the render buffer lists every vertex, or update() is due to rebuild it from
\* an arc-length table that is measured or due to be measured (a Path as its
\* constructor or a render leaves it; not one whose flags were cleared before
\* its first update)
BufferCurrentOrDue(p) ==
    \/ Len(p.zzz) = Len(p.vertices)
    \/ /\ p.flags["Vertices"]
       /\ p.flags["Length"] \/ Len(p.lengths) = Len(p.vertices)

CumLength(p, i) == SumSeq(SubSeq(p.lengths, 1, i + 1))

\* the trimmed window of p lies strictly inside segment i, whose entry of the
\* length table is its length
WindowInside(h, p, i) ==
    LET lo == IF p.beginning < p.ending THEN p.beginning ELSE p.ending
        hi == IF p.beginning < p.ending THEN p.ending ELSE p.beginning
    IN /\ i >= 1 /\ i < Len(p.vertices) /\ i < Len(p.lengths)
       /\ At(p.lengths, i) = Distance(h, At(p.vertices, i - 1), At(p.vertices, i))
       /\ RLt(R(CumLength(p, i - 1)), RMul(R(p.length), Frac(lo)))
       /\ RLt(RMul(R(p.length), Frac(hi)), R(CumLength(p, i)))

\* buffer entry k is the vertex it stands for, unmoved
Verbatim(h, p, k) ==
    LET b == RenderBuffer(p)[k]
        v == h[At(p.vertices, p.zzz[k])]
    IN b.x = R(v.x) /\ b.y = R(v.y)

Contiguous(zzz) == \A k \in 1 .. Len(zzz) - 1 : zzz[k + 1] = zzz[k] + 1

\* C28: after an update() that rebuilds the render buffer, its entries stand
\* for consecutive, strictly increasing vertex indices, without gap or
\* duplicate, and there are no more of them than there are vertices.
C28_BufferIsContiguous ==
    [][(lastOp' = "Update" /\ ~threw' /\ path'.version # path.version)
          => /\ Contiguous(path'.zzz)
             /\ Len(path'.zzz) <= Len(path'.vertices)
             /\ \A k \in 1 .. Len(path'.zzz) : path'.zzz[k] \in 0 .. Len(path'.vertices) - 1]_vars

\* the second half of the path (0,0) (3,0) (3,4): the synthesized start point
\* at index 1 before the copy of the last vertex
C28_Witness ==
    /\ lastOp = "Update" /\ ~threw
    /\ path.version = 1
    /\ Len(path.vertices) = 3
    /\ path.beginning = Fine /\ path.ending = TDen * Fine
    /\ path.zzz = <<1, 2>>

\* the first four vertices of the Rectangle are at the corners of its size,
\* each minus the origin, in the order of Rectangle.update
AtCorners(h, p) ==
    /\ Len(p.vertices) >= RectCorners
    /\ \A k \in 0 .. RectCorners - 1 :
           LET v == h[At(p.vertices, k)]
               x == IF k \in {1, 2} THEN p.width \div 2 ELSE -(p.width \div 2)
               y == IF k \in {2, 3} THEN p.height \div 2 ELSE -(p.height \div 2)
           IN v.x = x - p.origin[1] /\ v.y = y - p.origin[2]

LiveResize(f) == {k \in 1 .. Len(f.subs) : ~f.subs[k].closed}

\* C30: after any sequence of subscribe, unsubscribe, set_target and dispose
\* calls on a Fitter at most one resize subscription is live, is_bound() is
\* true exactly when one is live, and the live one is the one #target_resize
\* holds: every subscription an earlier subscribe() obtained is unsubscribed.
C30_AtMostOneResizeSubscription ==
    /\ Cardinality(LiveResize(fitter)) <= 1
    /\ Fitter_is_bound(fitter) <=> LiveResize(fitter) # {}
    /\ LiveResize(fitter) \subseteq {fitter.target_resize}

\* subscribe() on a bound Fitter, after the target was changed: the first
\* subscription is unsubscribed and the second is live
C30_Witness ==
    /\ lastOp = "FitterSubscribe" /\ ~fitter.threw
    /\ Len(fitter.subs) = 2
    /\ fitter.subs[1] = [target |-> 1, closed |-> TRUE]
    /\ fitter.subs[2] = [target |-> 2, closed |-> FALSE]
    /\ fitter.target_resize = 2

\* C31: for every integer v and every integer l > 0, mod(v, l) is the r with
\* 0 <= r < l that is congruent to v modulo l.
C31_ModIsNonNegativeResidue ==
    calc.fn = "mod"
        => LET v == calc.args[1]
               l == calc.args[2]
               r == calc.ret[1]
           IN /\ calc.ret[2] = 1
              /\ 0 <= r /\ r < l
              /\ \E q \in -(MaxModArg + 1) .. MaxModArg + 1 : v = q * l + r

\* mod(-7, 5) = 3
C31_Witness == calc = [fn |-> "mod", args |-> <<-7, 5>>, ret |-> R(3)]

\* the powers of two up to the first one above every argument
PowersOfTwo == {2 ^ k : k \in 0 .. Len(pots) + 1}

\* C32: for every positive integer value, getPoT(value) is the smallest power
\* of two that is >= value.
C32_SmallestPowerOfTwo ==
    calc.fn = "getPoT"
        => LET value == calc.args[1] IN
           /\ calc.ret[2] = 1
           /\ calc.ret[1] \in PowersOfTwo
           /\ calc.ret[1] >= value
           /\ \A p \in PowersOfTwo : p >= value => calc.ret[1] <= p

\* C33: an update() of a Path that runs with the Vertices flag set increments
\* the version counter of the render buffer by exactly one, and an update()
\* with the flag clear leaves the counter as it is.
C33_VersionCountsDirtyUpdates ==
    [][(lastOp' = "Update" /\ ~path.isRect)
          => path'.version = path.version + (IF path.flags["Vertices"] THEN 1 ELSE 0)]_vars

\* C34: every call of getPointAt returns: none stays in a loop that cannot
\* end (mod(-1, 0) adds 0 to a negative value for ever).
C34_GetPointAtTerminates ==
    lastOp = "GetPointAt" => out.ret # "diverges"

\* C35: after any insertions and removals on the current collection, the live
\* change subscriptions of the Path are the ones its map records: one for
\* every anchor of the map, none for any other, and the anchors of the
\* collection are the anchors of the map.
C35_MapRecordsEverySubscription ==
    /\ \A a \in DOMAIN anchor : anchor[a].subs = (IF a \in path.map THEN 1 ELSE 0)
    /\ ~threw => path.map = Range(path.vertices)

\* the Two holds no live subscription: neither the one to the size of the
\* view nor one to the resize events of a target
NothingLive(t, f) == t.view_closed /\ ~t.view_resize /\ LiveResize(f) = {}

\* C36: after Two.dispose() the instance holds no live subscription, a second
\* dispose() changes nothing, and an update() that follows creates no
\* subscription.
C36_DisposeIsFinal ==
    [][/\ lastOp' = "TwoDispose" => NothingLive(two', fitter')
       /\ (lastOp = "TwoDispose" /\ lastOp' = "TwoDispose")
             => two' = two /\ fitter' = fitter
       /\ (lastOp = "TwoDispose" /\ lastOp' = "TwoUpdate")
             => NothingLive(two', fitter')]_vars

\* C37: every Two.update() increments frameCount by one, and the value it
\* emits on frameCount$ is the frameCount it leaves.
C37_EmittedFrameCountIsCurrent ==
    [][lastOp' = "TwoUpdate"
          => /\ two'.frameCount = two.frameCount + 1
             /\ two'.emitted = two'.frameCount]_vars

\* the live paint subscriptions of p are the one to its fill, when that is a
\* color provider, and the one to its stroke, likewise; none else
PaintHeld(p) ==
    /\ \A g \in Providers :
           /\ p.paint[g].fill = (IF p.fill = g THEN 1 ELSE 0)
           /\ p.paint[g].stroke = (IF p.stroke = g THEN 1 ELSE 0)
    /\ p.fill_change = (IF p.fill \in Providers THEN p.fill ELSE "null")
    /\ p.stroke_change = (IF p.stroke \in Providers THEN p.stroke ELSE "null")

\* C38: after any assignments to fill and to stroke the Path holds at most one
\* live subscription for each, to the current value when that is a color
\* provider and none when it is a plain color; and a change of a provider sets
\* the Fill flag when it is the fill, the Stroke flag when it is the stroke,
\* and no other flag.
C38_OnePaintSubscription ==
    [][/\ PaintHeld(path')
       /\ lastOp' = "ProviderChange"
             => \E g \in Providers :
                    path'.flags = [path.flags EXCEPT !["Fill"] = @ \/ path.fill = g,
                                                     !["Stroke"] = @ \/ path.stroke = g]]_vars

\* fill is the provider g2 and stroke the provider g1; g2 changed after the
\* flags were cleared: Fill is set, Stroke is not
C38_Witness ==
    /\ lastOp = "ProviderChange"
    /\ path.fill = "g2" /\ path.fill_change = "g2"
    /\ path.paint["g1"].fill = 0 /\ path.paint["g2"].fill = 1
    /\ path.stroke = "g1"
    /\ path.flags["Fill"] /\ ~path.flags["Stroke"] /\ ~path.flags["Vertices"]

\* C39: a Rectangle has 4 or 5 vertices; the number changes only in an
\* update() that regenerates an open Rectangle of 4 vertices, which gives it
\* the fifth; and after every regenerating update() a fifth vertex has the
\* origin of vertex 0 and the command Line.
C39_RectangleVertexCount ==
    [][path.isRect
          => /\ Len(path'.vertices) \in {RectCorners, RectCorners + 1}
             /\ Len(path'.vertices) # Len(path.vertices)
                   => /\ lastOp' = "Update" /\ ~path.closed
                      /\ Len(path.vertices) = RectCorners
                      /\ Len(path'.vertices) = RectCorners + 1
             /\ (/\ lastOp' = "Update" /\ ~threw'
                 /\ path.flags["Vertices"] \/ path.flags["Width"] \/ path.flags["Height"]
                 /\ Len(path'.vertices) = RectCorners + 1)
                   => LET v0 == anchor'[At(path'.vertices, 0)]
                          v4 == anchor'[At(path'.vertices, RectCorners)]
                      IN v4.x = v0.x /\ v4.y = v0.y /\ v4.command = "L"]_vars

\* a Rectangle opened, updated, closed again and resized: it keeps its fifth
\* vertex, which follows vertex 0
C39_Witness ==
    /\ path.isRect /\ lastOp = "Update" /\ ~threw
    /\ path.closed /\ path.width = 8 /\ path.height = 8
    /\ Len(path.vertices) = RectCorners + 1
    /\ anchor[At(path.vertices, RectCorners)].x = -4
    /\ anchor[At(path.vertices, RectCorners)].y = -4
    /\ anchor[At(path.vertices, 0)].x = -4
    /\ anchor[At(path.vertices, RectCorners)].command = "L"

\* C40: the Gradient holds a live change subscription, and an entry of its
\* subscription table, only for stops of its current collection (none at all
\* once disposed), so a change of any other stop leaves _flagStops as it is.
C40_NoSubscriptionToFormerStops ==
    /\ \A s \in Stops \ Range(gradient.stops) : gradient.subs[s] = 0
    /\ gradient.table \subseteq Range(gradient.stops)

====
